---- MODULE Spec2Model ----
(***************************************************************************)
(* Model of the nssa-framework CLI invocation pipeline                     *)
(* (nssa-framework-cli: hex.rs, parse.rs, serialize.rs, pda.rs, tx.rs).    *)
(*                                                                         *)
(* Representation.  A Rust String / &str is the sequence of its UTF-8      *)
(* bytes (naturals 0..255); str::len is Len.  An unsigned integer of w     *)
(* bytes (u8, u32, u64, u128) is the sequence of its w little-endian       *)
(* bytes, so every width is kept exactly.  A u32 word of the risc0 word    *)
(* stream is therefore a 4-byte little-endian tuple.  A Result is a record *)
(* with a field ok; a panic of the Rust code is the result Panic.          *)
(***************************************************************************)
EXTENDS Integers, Sequences, FiniteSets, TLC

\* ------------------------------------------------------------------------
\* Results
\* ------------------------------------------------------------------------
Ok(v) == [ok |-> TRUE, val |-> v]

Err(e) == [ok |-> FALSE, err |-> e]

Panic == [ok |-> FALSE, err |-> [kind |-> "panic"]]

IsPanic(r) == (~r.ok) /\ r.err.kind = "panic"

\* ------------------------------------------------------------------------
\* Byte strings
\* ------------------------------------------------------------------------
Zeros(n) == [i \in 1..n |-> 0]

Take(s, n) == SubSeq(s, 1, n)

Drop(s, n) == SubSeq(s, n + 1, Len(s))

StartsWith(s, p) == Len(s) >= Len(p) /\ Take(s, Len(p)) = p

RECURSIVE Concat(_)
Concat(ss) == IF ss = <<>> THEN <<>> ELSE Head(ss) \o Concat(Tail(ss))

\* The bytes in the order given.
SameOrder(s) == s

Reverse(s) == [i \in 1..Len(s) |-> s[Len(s) + 1 - i]]

Min(S) == CHOOSE x \in S : \A y \in S : x <= y

\* Recursion over a long sequence is cut into blocks of Chunk elements, so
\* that the evaluation depth stays small; the value computed is that of the
\* plain left-to-right loop.
Chunk == 8

\* The first index at which a sequence of results fails, 0 when none does.
FirstErr(rs) ==
    IF \A j \in 1..Len(rs) : rs[j].ok THEN 0
    ELSE Min({j \in 1..Len(rs) : ~rs[j].ok})

\* str::is_char_boundary: index i (0-based byte offset) does not fall inside
\* a multi-byte UTF-8 character.
IsCharBoundary(s, i) ==
    \/ i = 0
    \/ i = Len(s)
    \/ (i < Len(s) /\ ~(s[i + 1] \in 128..191))

\* &s[from..to] (0-based, to exclusive): Panic off a character boundary.
StrSlice(s, from, to) ==
    IF from <= to /\ to <= Len(s) /\ IsCharBoundary(s, from) /\ IsCharBoundary(s, to)
    THEN Ok(SubSeq(s, from + 1, to))
    ELSE Panic

\* char::is_ascii_hexdigit on a one-byte character.
IsAsciiHexDigit(b) == b \in (48..57) \cup (65..70) \cup (97..102)

\* raw.chars().all(|c| c.is_ascii_hexdigit()): a byte >= 128 belongs to a
\* non-ASCII character, which is no hex digit.
AllHexDigits(s) == \A i \in 1..Len(s) : IsAsciiHexDigit(s[i])

\* char::to_digit(radix) for radix <= 16; -1 when the byte is no digit.
ToDigit(b, radix) ==
    LET d == IF b \in 48..57 THEN b - 48
             ELSE IF b \in 97..102 THEN b - 87
             ELSE IF b \in 65..70 THEN b - 55
             ELSE -1
    IN IF d >= 0 /\ d < radix THEN d ELSE -1

\* ------------------------------------------------------------------------
\* Fixed-width unsigned arithmetic on little-endian byte sequences
\* ------------------------------------------------------------------------
\* n < 2^31 as w little-endian bytes.
RECURSIVE LeBytes(_, _)
LeBytes(n, w) == IF w = 0 THEN <<>> ELSE <<n % 256>> \o LeBytes(n \div 256, w - 1)

\* bs * m + c over the width of bs: the low bytes and the carry out.
RECURSIVE MulAddBlock(_, _, _)
MulAddBlock(bs, m, c) ==
    IF bs = <<>> THEN [b |-> <<>>, c |-> c]
    ELSE LET t == Head(bs) * m + c
             r == MulAddBlock(Tail(bs), m, t \div 256)
         IN [b |-> <<t % 256>> \o r.b, c |-> r.c]

RECURSIVE MulAdd(_, _, _)
MulAdd(bs, m, c) ==
    IF Len(bs) <= Chunk THEN MulAddBlock(bs, m, c)
    ELSE LET OnRest(h, r) == [b |-> h.b \o r.b, c |-> r.c]
             OnBlock(h) == IF h.c < 0 THEN h
                           ELSE OnRest(h, MulAdd(Drop(bs, Chunk), m, h.c))
         IN OnBlock(MulAddBlock(Take(bs, Chunk), m, c))

\* The digits ds[i..hi] (most significant first) accumulated into acc, a
\* result holding the bytes so far.
RECURSIVE AccumDigitsBlock(_, _, _, _, _)
AccumDigitsBlock(ds, radix, acc, i, hi) ==
    IF i > hi \/ ~acc.ok THEN acc
    ELSE LET d == ToDigit(ds[i], radix)
             OnMulAdd(r) == IF r.c # 0 THEN Err([kind |-> "PosOverflow"])
                            ELSE AccumDigitsBlock(ds, radix, Ok(r.b), i + 1, hi)
         IN IF d < 0 THEN Err([kind |-> "InvalidDigit"])
            ELSE OnMulAdd(MulAdd(acc.val, radix, d))

RECURSIVE AccumDigits(_, _, _, _)
AccumDigits(ds, radix, acc, i) ==
    IF i > Len(ds) \/ ~acc.ok THEN acc
    ELSE LET hi == IF i + Chunk - 1 < Len(ds) THEN i + Chunk - 1 ELSE Len(ds)
             OnBlock(a) == IF ~a.ok THEN a ELSE AccumDigits(ds, radix, a, hi + 1)
         IN OnBlock(AccumDigitsBlock(ds, radix, acc, i, hi))

\* <uN>::from_str_radix(s, radix) / str::parse::<uN>() (radix 10) for an
\* unsigned type of w bytes: an optional leading '+', then digits.
FromStrRadix(s, radix, w) ==
    IF s = <<>> THEN Err([kind |-> "Empty"])
    ELSE IF s[1] \in {43, 45} /\ Len(s) = 1 THEN Err([kind |-> "InvalidDigit"])
    ELSE LET ds == IF s[1] = 43 THEN Tail(s) ELSE s
         IN AccumDigits(ds, radix, Ok(Zeros(w)), 1)

\* ------------------------------------------------------------------------
\* hex.rs
\* ------------------------------------------------------------------------
HexChar(n) == IF n < 10 THEN 48 + n ELSE 87 + n

\* bytes.iter().map(|b| format!("{:02x}", b)).collect()
hex_encode(bytes) ==
    [k \in 1..(2 * Len(bytes)) |->
        IF k % 2 = 1 THEN HexChar(bytes[(k + 1) \div 2] \div 16)
        ELSE HexChar(bytes[k \div 2] % 16)]

\* One step of hex_decode's loop, at byte offset i:
\* u8::from_str_radix(&hex[i..i + 2], 16).
HexPair(hex, i) ==
    LET OnByte(b) == IF ~b.ok THEN Err([kind |-> "InvalidHex", pos |-> i]) ELSE Ok(b.val[1])
        OnSlice(sl) == IF ~sl.ok THEN Panic ELSE OnByte(FromStrRadix(sl.val, 16, 1))
    IN OnSlice(StrSlice(hex, i, i + 2))

\* A decoder without the length check: the last character of an odd-length
\* string is dropped.
HexDecodeDroppingOddTail(hex) ==
    LET OnSteps(rs, bad) == IF bad = 0 THEN Ok([k \in 1..Len(rs) |-> rs[k].val])
                            ELSE rs[bad]
        Steps(rs) == OnSteps(rs, FirstErr(rs))
    IN Steps([k \in 1..(Len(hex) \div 2) |-> HexPair(hex, 2 * (k - 1))])

\* The loop stops at the first offset whose step fails.
hex_decode(hex) ==
    IF Len(hex) % 2 # 0 THEN Err([kind |-> "OddLength", len |-> Len(hex)])
    ELSE LET OnSteps(rs, bad) == IF bad = 0 THEN Ok([k \in 1..Len(rs) |-> rs[k].val])
                                 ELSE rs[bad]
             Steps(rs) == OnSteps(rs, FirstErr(rs))
         IN Steps([k \in 1..(Len(hex) \div 2) |-> HexPair(hex, 2 * (k - 1))])

\* Digit value of a byte in the base58 alphabet
\* 123456789ABCDEFGHJKLMNPQRSTUVWXYZabcdefghijkmnopqrstuvwxyz, or -1.
Base58Digit(b) ==
    IF b \in 49..57 THEN b - 49
    ELSE IF b \in 65..72 THEN b - 56
    ELSE IF b \in 74..78 THEN b - 57
    ELSE IF b \in 80..90 THEN b - 58
    ELSE IF b \in 97..107 THEN b - 64
    ELSE IF b \in 109..122 THEN b - 65
    ELSE -1

RECURSIVE Base58AccumBlock(_, _, _, _)
Base58AccumBlock(s, i, hi, acc) ==
    IF i > hi THEN acc
    ELSE LET OnMulAdd(r) == IF r.c = 0 THEN Base58AccumBlock(s, i + 1, hi, r.b) ELSE r.b
         IN OnMulAdd(MulAdd(acc, 58, Base58Digit(s[i])))

RECURSIVE Base58Accum(_, _, _)
Base58Accum(s, i, acc) ==
    IF i > Len(s) THEN acc
    ELSE LET hi == IF i + Chunk - 1 < Len(s) THEN i + Chunk - 1 ELSE Len(s)
             OnBlock(a) == IF Len(a) = Len(acc) THEN Base58Accum(s, hi + 1, a) ELSE a
         IN OnBlock(Base58AccumBlock(s, i, hi, acc))

\* The number of leading elements of s equal to b.
LeadingCount(s, b) ==
    IF \A i \in 1..Len(s) : s[i] = b THEN Len(s)
    ELSE Min({i \in 1..Len(s) : s[i] # b}) - 1

StripLeadingZeros(be) == Drop(be, LeadingCount(be, 0))

LeadingOnes(s) == LeadingCount(s, 49)

\* base58::FromBase58::from_base58: each leading '1' is one zero byte, the
\* rest is the big-endian value of the base-58 number.
from_base58(s) ==
    IF \E i \in 1..Len(s) : Base58Digit(s[i]) < 0
    THEN Err([kind |-> "InvalidBase58Character"])
    ELSE LET z == LeadingOnes(s)
             le == Base58Accum(s, z + 1, Zeros(Len(s) - z))
         IN Ok(Zeros(z) \o StripLeadingZeros(Reverse(le)))

\* input.strip_prefix("0x").or_else(|| input.strip_prefix("0X")).unwrap_or(input)
StripHexPrefix(s) ==
    IF StartsWith(s, <<48, 120>>) \/ StartsWith(s, <<48, 88>>) THEN Drop(s, 2) ELSE s

AddrLen == 32

decode_bytes_32(input) ==
    LET OnHex(bytes) ==
            IF ~bytes.ok THEN bytes
            ELSE IF Len(bytes.val) = AddrLen THEN Ok(bytes.val)
            ELSE Err([kind |-> "Expected32", len |-> Len(bytes.val)])
        OnBase58(b58) ==
            IF b58.ok
            THEN IF Len(b58.val) = AddrLen THEN Ok(b58.val)
                 ELSE Err([kind |-> "Base58Length", len |-> Len(b58.val)])
            ELSE OnHex(hex_decode(StripHexPrefix(input)))
    IN OnBase58(from_base58(input))

\* ------------------------------------------------------------------------
\* Strings of the program text, as UTF-8 bytes
\* ------------------------------------------------------------------------
S_u8 == <<117, 56>>

S_u32 == <<117, 51, 50>>

S_u64 == <<117, 54, 52>>

S_u128 == <<117, 49, 50, 56>>

S_bool == <<98, 111, 111, 108>>

S_string == <<115, 116, 114, 105, 110, 103>>

S_String == <<83, 116, 114, 105, 110, 103>>

S_program_id == <<112, 114, 111, 103, 114, 97, 109, 95, 105, 100>>

S_true == <<116, 114, 117, 101>>

S_false == <<102, 97, 108, 115, 101>>

S_yes == <<121, 101, 115>>

S_no == <<110, 111>>

S_none == <<110, 111, 110, 101>>

S_null == <<110, 117, 108, 108>>

S_None == <<78, 111, 110, 101>>

\* "-account"
S_account_suffix == <<45, 97, 99, 99, 111, 117, 110, 116>>

\* ------------------------------------------------------------------------
\* idl.rs: IdlType
\* ------------------------------------------------------------------------
TPrimitive(p) == [k |-> "Primitive", p |-> p]

TArray(elem, n) == [k |-> "Array", elem |-> elem, n |-> n]

TVec(elem) == [k |-> "Vec", elem |-> elem]

TOption(inner) == [k |-> "Option", inner |-> inner]

TDefined(name) == [k |-> "Defined", name |-> name]

IsPrim(ty, p) == ty.k = "Primitive" /\ ty.p = p

\* ------------------------------------------------------------------------
\* parse.rs: ParsedValue
\* ------------------------------------------------------------------------
VBool(b) == [t |-> "Bool", v |-> b]

VU8(b) == [t |-> "U8", v |-> b]

VU32(b) == [t |-> "U32", v |-> b]

VU64(b) == [t |-> "U64", v |-> b]

VU128(b) == [t |-> "U128", v |-> b]

VStr(s) == [t |-> "Str", v |-> s]

VByteArray(bytes) == [t |-> "ByteArray", v |-> bytes]

VU32Array(words) == [t |-> "U32Array", v |-> words]

VByteArrayVec(vecs) == [t |-> "ByteArrayVec", v |-> vecs]

VNone == [t |-> "None", v |-> <<>>]

VSome(inner) == [t |-> "Some", v |-> inner]

VRaw(s) == [t |-> "Raw", v |-> s]

\* ------------------------------------------------------------------------
\* str::split(','), str::trim
\* ------------------------------------------------------------------------
\* The k-th smallest element of a finite set of numbers.
Nth(P, k) == CHOOSE x \in P : Cardinality({y \in P : y < x}) = k - 1

\* s.split(sep).collect(): the segments between the occurrences of sep.
Split(s, sep) ==
    LET P == {i \in 1..Len(s) : s[i] = sep}
        n == Cardinality(P)
    IN [j \in 1..(n + 1) |->
           SubSeq(s, IF j = 1 THEN 1 ELSE Nth(P, j - 1) + 1,
                     IF j = n + 1 THEN Len(s) ELSE Nth(P, j) - 1)]

\* ASCII white space (the white space of the inputs considered).
IsWhitespace(b) == b \in {9, 10, 11, 12, 13, 32}

Trim(s) ==
    LET N == {i \in 1..Len(s) : ~IsWhitespace(s[i])}
    IN IF N = {} THEN <<>>
       ELSE SubSeq(s, Min(N), CHOOSE x \in N : \A y \in N : y <= x)

SplitTrim(s) == LET parts == Split(s, 44) IN [j \in 1..Len(parts) |-> Trim(parts[j])]

\* bytes.chunks(4) read as little-endian u32 words.
WordsOfBytes(bytes) ==
    [j \in 1..(Len(bytes) \div 4) |-> SubSeq(bytes, 4 * j - 3, 4 * j)]

\* ------------------------------------------------------------------------
\* parse.rs
\* ------------------------------------------------------------------------
ProgramIdWords == 8

\* A component parser without the 0x branch.
ParseProgramIdPartDecimal(part) == FromStrRadix(part, 10, 4)

\* One component of a comma-separated ProgramId.
ParseProgramIdPart(part) ==
    IF StartsWith(part, <<48, 120>>) \/ StartsWith(part, <<48, 88>>)
    THEN FromStrRadix(Drop(part, 2), 16, 4)
    ELSE FromStrRadix(part, 10, 4)

parse_program_id(raw) ==
    IF \E i \in 1..Len(raw) : raw[i] = 44
    THEN LET OnParts(parts, rs, bad) ==
                 IF Len(parts) # ProgramIdWords
                 THEN Err([kind |-> "ProgramIdCount", got |-> Len(parts)])
                 ELSE IF bad # 0
                 THEN Err([kind |-> "ProgramIdPart", index |-> bad - 1, part |-> parts[bad]])
                 ELSE Ok(VU32Array([j \in 1..Len(parts) |-> rs[j].val]))
             OnWords(parts, rs) == OnParts(parts, rs, FirstErr(rs))
             OnSplit(parts) ==
                 OnWords(parts, [j \in 1..Len(parts) |-> ParseProgramIdPart(parts[j])])
         IN OnSplit(SplitTrim(raw))
    ELSE IF Len(raw) = 64 /\ AllHexDigits(raw)
    THEN LET OnBytes(bytes) ==
                 IF ~bytes.ok THEN bytes ELSE Ok(VU32Array(WordsOfBytes(bytes.val)))
         IN OnBytes(hex_decode(raw))
    ELSE Err([kind |-> "InvalidProgramId", raw |-> raw])

\* str::parse::<uN>() for an unsigned type of w bytes, wrapped as
\* parse_primitive wraps it: tag is the ParsedValue variant.
ParseUnsigned(raw, w, tag, name) ==
    LET OnInt(r) == IF r.ok THEN Ok([t |-> tag, v |-> r.val])
                    ELSE Err([kind |-> "InvalidNumber", type |-> name, raw |-> raw])
    IN OnInt(FromStrRadix(raw, 10, w))

parse_primitive(raw, prim) ==
    IF prim = S_u8 THEN ParseUnsigned(raw, 1, "U8", "u8")
    ELSE IF prim = S_u32 THEN ParseUnsigned(raw, 4, "U32", "u32")
    ELSE IF prim = S_u64 THEN ParseUnsigned(raw, 8, "U64", "u64")
    ELSE IF prim = S_u128 THEN ParseUnsigned(raw, 16, "U128", "u128")
    ELSE IF prim = S_program_id THEN parse_program_id(raw)
    ELSE IF prim = S_bool
    THEN IF raw \in {S_true, <<49>>, S_yes} THEN Ok(VBool(TRUE))
         ELSE IF raw \in {S_false, <<48>>, S_no} THEN Ok(VBool(FALSE))
         ELSE Err([kind |-> "InvalidBool", raw |-> raw])
    ELSE IF prim \in {S_string, S_String} THEN Ok(VStr(raw))
    ELSE Ok(VRaw(prim \o <<40>> \o raw \o <<41>>))

parse_array(raw, elem_type, size) ==
    IF IsPrim(elem_type, S_u8)
    THEN IF Len(raw) = size * 2 /\ AllHexDigits(raw)
         THEN LET OnBytes(bytes) ==
                      IF ~bytes.ok THEN bytes
                      ELSE IF Len(bytes.val) # size
                      THEN Err([kind |-> "ExpectedBytes", size |-> size,
                                got |-> Len(bytes.val)])
                      ELSE Ok(VByteArray(bytes.val))
              IN OnBytes(hex_decode(raw))
         ELSE IF StartsWith(raw, <<48, 120>>) \/ StartsWith(raw, <<48, 88>>)
         THEN LET OnBytes(bytes) ==
                      IF ~bytes.ok THEN bytes
                      ELSE IF Len(bytes.val) # size
                      THEN Err([kind |-> "ExpectedBytesFromHex", size |-> size,
                                got |-> Len(bytes.val)])
                      ELSE Ok(VByteArray(bytes.val))
                  OnSlice(hex) == IF ~hex.ok THEN Panic ELSE OnBytes(hex_decode(hex.val))
              IN OnSlice(StrSlice(raw, 2, Len(raw)))
         ELSE IF Len(raw) > size
         THEN Err([kind |-> "StringTooLong", raw |-> raw, len |-> Len(raw), size |-> size])
         ELSE Ok(VByteArray(raw \o Zeros(size - Len(raw))))
    ELSE IF IsPrim(elem_type, S_u32)
    THEN LET OnParts(parts, rs, bad) ==
                 IF Len(parts) # size
                 THEN Err([kind |-> "ExpectedU32Count", size |-> size, got |-> Len(parts)])
                 ELSE IF bad # 0
                 THEN Err([kind |-> "InvalidNumber", type |-> "u32", raw |-> parts[bad]])
                 ELSE Ok(VU32Array([j \in 1..Len(parts) |-> rs[j].val]))
             OnWords(parts, rs) == OnParts(parts, rs, FirstErr(rs))
             OnSplit(parts) ==
                 OnWords(parts, [j \in 1..Len(parts) |-> FromStrRadix(parts[j], 10, 4)])
         IN OnSplit(SplitTrim(raw))
    ELSE Ok(VRaw(raw))

\* One element of a Vec<[u8; size]>, at index i (0-based).
ParseVecElement(part, size, i) ==
    LET OnBytes(bytes) ==
            IF IsPanic(bytes) THEN Panic
            ELSE IF ~bytes.ok THEN Err([kind |-> "Element", index |-> i, cause |-> bytes.err])
            ELSE IF Len(bytes.val) # size
            THEN Err([kind |-> "ElementLength", index |-> i, size |-> size,
                      got |-> Len(bytes.val), part |-> part])
            ELSE bytes
    IN IF size = AddrLen THEN OnBytes(decode_bytes_32(part))
       ELSE OnBytes(hex_decode(StripHexPrefix(part)))

parse_vec(raw, elem_type) ==
    IF elem_type.k = "Array" /\ IsPrim(elem_type.elem, S_u8)
    THEN IF raw = <<>> THEN Ok(VByteArrayVec(<<>>))
         ELSE LET OnElems(rs, bad) ==
                      IF bad # 0 THEN rs[bad]
                      ELSE Ok(VByteArrayVec([j \in 1..Len(rs) |-> rs[j].val]))
                  Elems(rs) == OnElems(rs, FirstErr(rs))
                  OnSplit(parts) ==
                      Elems([j \in 1..Len(parts) |->
                                ParseVecElement(parts[j], elem_type.n, j - 1)])
              IN OnSplit(SplitTrim(raw))
    ELSE Ok(VRaw(raw))

RECURSIVE parse_value(_, _)
parse_value(raw, ty) ==
    CASE ty.k = "Primitive" -> parse_primitive(raw, ty.p)
      [] ty.k = "Array" -> parse_array(raw, ty.elem, ty.n)
      [] ty.k = "Vec" -> parse_vec(raw, ty.elem)
      [] ty.k = "Option" ->
            IF raw = S_none \/ raw = S_null \/ raw = <<>> THEN Ok(VNone)
            ELSE LET OnInner(inner) == IF ~inner.ok THEN inner ELSE Ok(VSome(inner.val))
                 IN OnInner(parse_value(raw, ty.inner))
      [] ty.k = "Defined" -> Ok(VRaw(ty.name \o <<40>> \o raw \o <<41>>))

\* ------------------------------------------------------------------------
\* serialize.rs.  A serializer returns the words it appends to out and the
\* warnings it prints on stderr.
\* ------------------------------------------------------------------------
Word(n) == LeBytes(n, 4)

Emit(words) == [w |-> words, warn |-> <<>>]

Warn(what) == [w |-> <<>>, warn |-> <<what>>]

\* A packer that drops the bytes after the last whole word.
SerializeBytesWholeWords(bytes) ==
    [j \in 1..(Len(bytes) \div 4) |-> [b \in 1..4 |-> bytes[4 * (j - 1) + b]]]

\* bytes packed four per little-endian word, the last word zero-padded.
serialize_bytes_padded(bytes) ==
    [j \in 1..((Len(bytes) + 3) \div 4) |->
        [b \in 1..4 |-> IF 4 * (j - 1) + b <= Len(bytes) THEN bytes[4 * (j - 1) + b] ELSE 0]]

\* A primitive encoder that writes the high word of a u64 first.
SerializePrimitiveHighFirst(prim, val) ==
    IF prim = S_bool /\ val.t = "Bool" THEN Emit(<<Word(IF val.v THEN 1 ELSE 0)>>)
    ELSE IF prim = S_u8 /\ val.t = "U8" THEN Emit(<<val.v \o Zeros(3)>>)
    ELSE IF prim = S_u32 /\ val.t = "U32" THEN Emit(<<val.v>>)
    ELSE IF prim = S_u64 /\ val.t = "U64" THEN Emit(<<SubSeq(val.v, 5, 8), SubSeq(val.v, 1, 4)>>)
    ELSE IF prim = S_u128 /\ val.t = "U128" THEN Emit(WordsOfBytes(val.v))
    ELSE IF prim = S_program_id /\ val.t = "U32Array" THEN Emit(val.v)
    ELSE IF prim \in {S_string, S_String} /\ val.t = "Str"
    THEN Emit(<<Word(Len(val.v))>> \o serialize_bytes_padded(val.v))
    ELSE Warn("TypeMismatch")

serialize_primitive_risc0(prim, val) ==
    IF prim = S_bool /\ val.t = "Bool" THEN Emit(<<Word(IF val.v THEN 1 ELSE 0)>>)
    ELSE IF prim = S_u8 /\ val.t = "U8" THEN Emit(<<val.v \o Zeros(3)>>)
    ELSE IF prim = S_u32 /\ val.t = "U32" THEN Emit(<<val.v>>)
    ELSE IF prim = S_u64 /\ val.t = "U64" THEN Emit(<<SubSeq(val.v, 1, 4), SubSeq(val.v, 5, 8)>>)
    ELSE IF prim = S_u128 /\ val.t = "U128" THEN Emit(WordsOfBytes(val.v))
    ELSE IF prim = S_program_id /\ val.t = "U32Array" THEN Emit(val.v)
    ELSE IF prim \in {S_string, S_String} /\ val.t = "Str"
    THEN Emit(<<Word(Len(val.v))>> \o serialize_bytes_padded(val.v))
    ELSE Warn("TypeMismatch")

\* An array encoder that packs the bytes four per word.
SerializeArrayPacked(elem_type, size, val) ==
    IF IsPrim(elem_type, S_u8) /\ val.t = "ByteArray"
    THEN Emit(serialize_bytes_padded(val.v))
    ELSE IF IsPrim(elem_type, S_u32) /\ val.t = "U32Array" THEN Emit(val.v)
    ELSE Warn("CannotSerializeArray")

serialize_array_risc0(elem_type, size, val) ==
    IF IsPrim(elem_type, S_u8) /\ val.t = "ByteArray"
    THEN Emit([j \in 1..Len(val.v) |-> Word(val.v[j])])
    ELSE IF IsPrim(elem_type, S_u32) /\ val.t = "U32Array" THEN Emit(val.v)
    ELSE Warn("CannotSerializeArray")

serialize_vec_risc0(elem_type, val) ==
    IF elem_type.k = "Array" /\ val.t = "ByteArrayVec"
    THEN IF IsPrim(elem_type.elem, S_u8)
         THEN Emit(<<Word(Len(val.v))>>
                   \o Concat([j \in 1..Len(val.v) |->
                                 [b \in 1..Len(val.v[j]) |-> Word(val.v[j][b])]]))
         ELSE [w |-> <<Word(Len(val.v))>>, warn |-> <<"CannotSerializeVecElement">>]
    ELSE Warn("CannotSerializeVec")

\* An encoder that writes a present option without its discriminant word.
SerializeWithoutDiscriminant(ty, val) ==
    LET Plain(t, v) ==
            CASE t.k = "Primitive" -> serialize_primitive_risc0(t.p, v)
              [] t.k = "Array" -> serialize_array_risc0(t.elem, t.n, v)
              [] t.k = "Vec" -> serialize_vec_risc0(t.elem, v)
              [] OTHER -> Warn("CannotSerializeDefined")
    IN IF ty.k # "Option" THEN Plain(ty, val)
       ELSE IF val.t = "None" THEN Emit(<<Word(0)>>)
       ELSE Plain(ty.inner, IF val.t = "Some" THEN val.v ELSE val)

RECURSIVE serialize_value_risc0(_, _)
serialize_value_risc0(ty, val) ==
    CASE ty.k = "Primitive" -> serialize_primitive_risc0(ty.p, val)
      [] ty.k = "Array" -> serialize_array_risc0(ty.elem, ty.n, val)
      [] ty.k = "Vec" -> serialize_vec_risc0(ty.elem, val)
      [] ty.k = "Option" /\ val.t = "None" -> Emit(<<Word(0)>>)
      [] ty.k = "Option" /\ val.t # "None" ->
            LET OnInner(inner) == [w |-> <<Word(1)>> \o inner.w, warn |-> inner.warn]
            IN OnInner(serialize_value_risc0(ty.inner, IF val.t = "Some" THEN val.v ELSE val))
      [] OTHER -> Warn("CannotSerializeDefined")

\* parsed_args: a sequence of records [name, ty, val].
serialize_to_risc0(variant_index, parsed_args) ==
    LET OnEach(each) ==
            [w |-> <<Word(variant_index)>> \o Concat([j \in 1..Len(each) |-> each[j].w]),
             warn |-> Concat([j \in 1..Len(each) |-> each[j].warn])]
    IN OnEach([j \in 1..Len(parsed_args) |->
                  serialize_value_risc0(parsed_args[j].ty, parsed_args[j].val)])

\* ------------------------------------------------------------------------
\* parse.rs: Display for ParsedValue
\* ------------------------------------------------------------------------
\* be (big-endian bytes) divided by d: quotient and remainder.
RECURSIVE DivSmall(_, _, _)
DivSmall(be, d, rem) ==
    IF be = <<>> THEN [q |-> <<>>, r |-> rem]
    ELSE LET t == rem * 256 + Head(be)
             rest == DivSmall(Tail(be), d, t % d)
         IN [q |-> <<t \div d>> \o rest.q, r |-> rest.r]

IsZero(bytes) == \A i \in 1..Len(bytes) : bytes[i] = 0

RECURSIVE DecLoopBlock(_, _, _)
DecLoopBlock(be, acc, k) ==
    IF k = 0 \/ IsZero(be) THEN [be |-> be, acc |-> acc]
    ELSE LET OnDiv(dm) == IF dm.r < 0 THEN [be |-> be, acc |-> acc]
                          ELSE DecLoopBlock(dm.q, <<48 + dm.r>> \o acc, k - 1)
         IN OnDiv(DivSmall(be, 10, 0))

RECURSIVE DecLoop(_, _)
DecLoop(be, acc) ==
    IF IsZero(be) THEN acc
    ELSE LET OnBlock(st) == IF IsZero(st.be) THEN st.acc ELSE DecLoop(st.be, st.acc)
         IN OnBlock(DecLoopBlock(be, acc, Chunk))

\* <uN as Display>::fmt / to_string of an unsigned integer (little-endian bytes).
ToDecimal(le) == IF IsZero(le) THEN <<48>> ELSE DecLoop(Reverse(le), <<>>)

\* parts.join(sep)
Join(parts, sep) ==
    Concat([j \in 1..Len(parts) |-> IF j = 1 THEN parts[j] ELSE sep \o parts[j]])

RECURSIVE Display(_)
Display(val) ==
    CASE val.t = "Bool" -> IF val.v THEN S_true ELSE S_false
      [] val.t \in {"U8", "U32", "U64", "U128"} -> ToDecimal(val.v)
      [] val.t = "Str" -> <<34>> \o val.v \o <<34>>
      [] val.t = "ByteArray" ->
            IF \A i \in 1..Len(val.v) : val.v[i] \in 32..126
            THEN <<34>> \o val.v \o <<34, 32, 40, 104, 101, 120, 58, 32>>
                 \o hex_encode(val.v) \o <<41>>
            ELSE <<48, 120>> \o hex_encode(val.v)
      [] val.t = "U32Array" ->
            <<91>> \o Join([j \in 1..Len(val.v) |-> ToDecimal(val.v[j])], <<44, 32>>) \o <<93>>
      [] val.t = "ByteArrayVec" ->
            <<91>> \o Join([j \in 1..Len(val.v) |-> <<48, 120>> \o hex_encode(val.v[j])],
                           <<44, 32>>) \o <<93>>
      [] val.t = "None" -> S_None
      [] val.t = "Some" -> <<83, 111, 109, 101, 40>> \o Display(val.v) \o <<41>>
      [] val.t = "Raw" -> val.v

\* ------------------------------------------------------------------------
\* pda.rs
\* ------------------------------------------------------------------------
SeedConst(value) == [kind |-> "const", s |-> value]

SeedAccount(path) == [kind |-> "account", s |-> path]

SeedArg(path) == [kind |-> "arg", s |-> path]

\* Left-justified into a 32-byte zero buffer.
PadRight32(src) == src \o Zeros(AddrLen - Len(src))

\* account_map, parsed_args: functions from names to values (HashMap).
resolve_seed(seed, program_id, account_map, parsed_args) ==
    CASE seed.kind = "const" ->
            IF Len(seed.s) > AddrLen THEN Err([kind |-> "ConstSeedTooLong", name |-> seed.s])
            ELSE Ok(PadRight32(seed.s))
      [] seed.kind = "account" ->
            IF seed.s \notin DOMAIN account_map
            THEN Err([kind |-> "AccountNotResolved", name |-> seed.s])
            ELSE Ok(account_map[seed.s])
      [] seed.kind = "arg" ->
            IF seed.s \notin DOMAIN parsed_args
            THEN Err([kind |-> "ArgNotProvided", name |-> seed.s])
            ELSE LET val == parsed_args[seed.s]
                 IN CASE val.t = "ByteArray" ->
                            IF Len(val.v) # AddrLen
                            THEN Err([kind |-> "ArgWrongLength", name |-> seed.s,
                                      len |-> Len(val.v)])
                            ELSE Ok(val.v)
                      [] val.t = "U64" -> Ok(Zeros(24) \o Reverse(val.v))
                      [] val.t = "U128" -> Ok(Zeros(16) \o Reverse(val.v))
                      [] val.t = "Str" ->
                            IF Len(val.v) > AddrLen
                            THEN Err([kind |-> "StringArgTooLong", name |-> seed.s])
                            ELSE Ok(PadRight32(val.v))
                      [] OTHER -> Err([kind |-> "UnsupportedSeedType", name |-> seed.s])

\* Addition with a carry in.
AddCarry(a, b) == (a + b + 1) % 256

\* a ^ b on bytes.
XorByte(a, b) ==
    LET bit(x, i) == (x \div (2 ^ i)) % 2
    IN   ((bit(a, 0) + bit(b, 0)) % 2)       + ((bit(a, 1) + bit(b, 1)) % 2) * 2
       + ((bit(a, 2) + bit(b, 2)) % 2) * 4   + ((bit(a, 3) + bit(b, 3)) % 2) * 8
       + ((bit(a, 4) + bit(b, 4)) % 2) * 16  + ((bit(a, 5) + bit(b, 5)) % 2) * 32
       + ((bit(a, 6) + bit(b, 6)) % 2) * 64  + ((bit(a, 7) + bit(b, 7)) % 2) * 128

\* A combination that keeps the accumulator.
KeepLeft(a, b) == a

xor_bytes(a, b) == [i \in 1..AddrLen |-> XorByte(a[i], b[i])]

\* resolved.iter().skip(1).fold(resolved[0], xor_bytes)
RECURSIVE XorFold(_, _, _)
XorFold(resolved, acc, i) ==
    IF i > Len(resolved) THEN acc
    ELSE XorFold(resolved, xor_bytes(acc, resolved[i]), i + 1)

\* AccountId::from((program_id, &pda_seed)), the derivation primitive of the
\* nssa crate: a fixed function of the program id and the 32-byte seed that
\* is one-to-one in the seed.
AccountIdFrom(program_id, pda_seed) ==
    LET pid == Concat(program_id)
    IN [i \in 1..AddrLen |-> (pda_seed[i] + 3 * pid[i] + 7 * i + 101) % 256]

\* A derivation that reports the error of the last seed that fails.
ComputePdaLastError(seeds, program_id, account_map, parsed_args) ==
    IF seeds = <<>> THEN Err([kind |-> "NoSeeds"])
    ELSE LET OnResolved(resolved) ==
                 Ok(AccountIdFrom(program_id, XorFold(resolved, resolved[1], 2)))
             LastErr(rs) == CHOOSE j \in 1..Len(rs) :
                                ~rs[j].ok /\ \A k \in (j + 1)..Len(rs) : rs[k].ok
             OnSeeds(rs, bad) == IF bad # 0 THEN rs[LastErr(rs)]
                                 ELSE OnResolved([j \in 1..Len(rs) |-> rs[j].val])
             Seeds(rs) == OnSeeds(rs, FirstErr(rs))
         IN Seeds([j \in 1..Len(seeds) |->
                      resolve_seed(seeds[j], program_id, account_map, parsed_args)])

compute_pda_from_seeds(seeds, program_id, account_map, parsed_args) ==
    IF seeds = <<>> THEN Err([kind |-> "NoSeeds"])
    ELSE LET OnResolved(resolved) ==
                 Ok(AccountIdFrom(program_id, XorFold(resolved, resolved[1], 2)))
             OnSeeds(rs, bad) == IF bad # 0 THEN rs[bad]
                                 ELSE OnResolved([j \in 1..Len(rs) |-> rs[j].val])
             Seeds(rs) == OnSeeds(rs, FirstErr(rs))
         IN Seeds([j \in 1..Len(seeds) |->
                      resolve_seed(seeds[j], program_id, account_map, parsed_args)])

\* ------------------------------------------------------------------------
\* cli.rs: string utilities
\* ------------------------------------------------------------------------
\* s.replace('_', "-")
snake_to_kebab(s) == [i \in 1..Len(s) |-> IF s[i] = 95 THEN 45 ELSE s[i]]

\* char::to_uppercase on the first character of a word (ASCII names).
UpperFirst(w) ==
    IF w = <<>> THEN <<>>
    ELSE <<IF w[1] \in 97..122 THEN w[1] - 32 ELSE w[1]>> \o Tail(w)

to_pascal_case(s) ==
    LET ws == Split(s, 95) IN Concat([j \in 1..Len(ws) |-> UpperFirst(ws[j])])

\* ------------------------------------------------------------------------
\* Instruction descriptors (idl.rs: IdlInstruction, IdlAccountItem, IdlArg,
\* IdlPda) and the inputs of the invocations considered
\* ------------------------------------------------------------------------
NoPda == [some |-> FALSE, seeds |-> <<>>]

Pda(seeds) == [some |-> TRUE, seeds |-> seeds]

Account(name, signer, pda) == [name |-> name, signer |-> signer, pda |-> pda]

Arg(name, ty) == [name |-> name, ty |-> ty]

Instruction(name, accounts, args) == [name |-> name, accounts |-> accounts, args |-> args]

\* Names, as UTF-8 bytes.
N_transfer == <<116, 114, 97, 110, 115, 102, 101, 114>>

N_from == <<102, 114, 111, 109>>

N_to == <<116, 111>>

N_amount == <<97, 109, 111, 117, 110, 116>>

N_memo == <<109, 101, 109, 111>>

N_create_state == <<99, 114, 101, 97, 116, 101, 95, 115, 116, 97, 116, 101>>

N_state == <<115, 116, 97, 116, 101>>

N_owner == <<111, 119, 110, 101, 114>>

N_chain == <<99, 104, 97, 105, 110>>

N_vault == <<118, 97, 117, 108, 116>>

N_ledger == <<108, 101, 100, 103, 101, 114>>

N_index == <<105, 110, 100, 101, 120>>

N_pool_init == <<112, 111, 111, 108, 95, 105, 110, 105, 116>>

N_pool == <<112, 111, 111, 108>>

N_mint == <<109, 105, 110, 116>>

N_payer == <<112, 97, 121, 101, 114>>

N_configure == <<99, 111, 110, 102, 105, 103, 117, 114, 101>>

N_cfg == <<99, 102, 103>>

N_Config == <<67, 111, 110, 102, 105, 103>>

N_tag == <<116, 97, 103>>

N_flag == <<102, 108, 97, 103>>

N_swap == <<115, 119, 97, 112>>

N_token_program_id == <<116, 111, 107, 101, 110, 95, 112, 114, 111, 103, 114, 97, 109, 95, 105, 100>>

\* transfer(from: signer, to; amount: u64, memo: string)
Ix_transfer ==
    Instruction(N_transfer,
        <<Account(N_from, TRUE, NoPda), Account(N_to, FALSE, NoPda)>>,
        <<Arg(N_amount, TPrimitive(S_u64)), Arg(N_memo, TPrimitive(S_string))>>)

\* create_state(state: PDA [const "state", arg memo], owner: signer; memo: string)
Ix_create_state ==
    Instruction(N_create_state,
        <<Account(N_state, FALSE, Pda(<<SeedConst(N_state), SeedArg(N_memo)>>)),
          Account(N_owner, TRUE, NoPda)>>,
        <<Arg(N_memo, TPrimitive(S_string))>>)

\* chain(vault: PDA [const "vault"], ledger: PDA [account vault, arg index]; index: u64)
Ix_chain ==
    Instruction(N_chain,
        <<Account(N_vault, FALSE, Pda(<<SeedConst(N_vault)>>)),
          Account(N_ledger, FALSE, Pda(<<SeedAccount(N_vault), SeedArg(N_index)>>))>>,
        <<Arg(N_index, TPrimitive(S_u64))>>)

\* pool_init(pool: PDA [account mint, const "pool"], payer: signer): mint is not
\* an account of the instruction.
Ix_pool_init ==
    Instruction(N_pool_init,
        <<Account(N_pool, FALSE, Pda(<<SeedAccount(N_mint), SeedConst(N_pool)>>)),
          Account(N_payer, TRUE, NoPda)>>,
        <<>>)

\* configure(payer: signer; cfg: Config, tag: [u8; 2], flag: Option<bool>)
Ix_configure ==
    Instruction(N_configure,
        <<Account(N_payer, TRUE, NoPda)>>,
        <<Arg(N_cfg, TDefined(N_Config)), Arg(N_tag, TArray(TPrimitive(S_u8), 2)),
          Arg(N_flag, TOption(TPrimitive(S_bool)))>>)

\* swap(payer; token_program_id: program_id)
Ix_swap ==
    Instruction(N_swap,
        <<Account(N_payer, FALSE, NoPda)>>,
        <<Arg(N_token_program_id, TPrimitive(S_program_id))>>)

\* transfer(from: signer; amount: u32): a second instruction named "transfer".
Ix_transfer_v2 ==
    Instruction(N_transfer,
        <<Account(N_from, TRUE, NoPda)>>,
        <<Arg(N_amount, TPrimitive(S_u32))>>)

N_send == <<115, 101, 110, 100>>

N_to_account == <<116, 111, 95, 97, 99, 99, 111, 117, 110, 116>>

\* send(to; to_account: string): the argument to_account and the account to
\* are both supplied as --to-account.
Ix_send ==
    Instruction(N_send,
        <<Account(N_to, FALSE, NoPda)>>,
        <<Arg(N_to_account, TPrimitive(S_string))>>)

\* idl.instructions
Instructions ==
    <<Ix_transfer, Ix_create_state, Ix_chain, Ix_pool_init, Ix_configure, Ix_swap,
      Ix_transfer_v2, Ix_send>>

ArgKey(arg) == snake_to_kebab(arg.name)

AccountKey(name) == snake_to_kebab(name) \o S_account_suffix

\* Raw account identifiers: "0x" and 64 hex characters, 32 base58 characters
\* '1' (32 zero bytes), and "zz" (base58 for two bytes).
RawAddrHex == <<48, 120>> \o hex_encode([i \in 1..AddrLen |-> 160 + i])

RawAddrBase58 == [i \in 1..AddrLen |-> 49]

RawAddrBad == <<122, 122>>

\* A string of 33 bytes.
RawLong == [i \in 1..(AddrLen + 1) |-> 109]

\* For each instruction, the raw values a caller may supply under each key.
RawChoices ==
    << (ArgKey(Ix_transfer.args[1]) :> { <<52, 50>>, <<52, 120>> })
         @@ (ArgKey(Ix_transfer.args[2]) :> { <<104, 105>> })
         @@ (AccountKey(N_from) :> {RawAddrHex, RawAddrBad})
         @@ (AccountKey(N_to) :> {RawAddrBase58}),
       (ArgKey(Ix_create_state.args[1]) :> { <<104, 105>>, RawLong })
         @@ (AccountKey(N_owner) :> {RawAddrHex}),
       (ArgKey(Ix_chain.args[1]) :> { <<55>> })
         @@ (AccountKey(N_vault) :> {RawAddrHex, RawAddrBad}),
       (AccountKey(N_mint) :> {RawAddrBase58, RawAddrBad})
         @@ (AccountKey(N_payer) :> {RawAddrHex}),
       (ArgKey(Ix_configure.args[1]) :> { <<120>> })
         @@ (ArgKey(Ix_configure.args[2]) :> { <<97, 98>>, <<97, 98, 99>>, <<48, 120, 97, 195, 169, 98>> })
         @@ (ArgKey(Ix_configure.args[3]) :> { <<110, 111, 110, 101>>, <<121, 101, 115>>, <<109, 97, 121, 98, 101>> })
         @@ (AccountKey(N_payer) :> {RawAddrHex}),
       (ArgKey(Ix_swap.args[1]) :> { <<49, 44, 50, 44, 51, 44, 52, 44, 53, 44, 54, 44, 55, 44, 48, 120, 56>> })
         @@ (AccountKey(N_payer) :> {RawAddrBase58}),
       (ArgKey(Ix_transfer_v2.args[1]) :> { <<52, 50>> })
         @@ (AccountKey(N_from) :> {RawAddrHex}),
       (AccountKey(N_to) :> {RawAddrHex, RawAddrBad}) >>

\* The maps that supply, for some of the keys, one of the raw values.
ArgMaps(choices) ==
    LET all == UNION {choices[k] : k \in DOMAIN choices}
    IN UNION {{f \in [K -> all] : \A k \in K : f[k] \in choices[k]} :
                 K \in SUBSET (DOMAIN choices)}

\* --bin-token: the binary whose id auto-fills --token-program-id.
BinPath == <<116, 97, 114, 103, 101, 116, 47, 116, 111, 107, 101, 110, 46, 98, 105, 110>>

ExtraBinsChoices(k) ==
    IF Instructions[k] = Ix_swap THEN {<<>>, (ArgKey(Ix_swap.args[1]) :> BinPath)} ELSE {<<>>}

ProgramPath == <<112, 114, 111, 103, 114, 97, 109, 46, 98, 105, 110>>

\* Program ids (8 u32 words) that Program::new(bytes).id() may return.
ProgramIds ==
    { [i \in 1..ProgramIdWords |-> Word(i)],
      [i \in 1..ProgramIdWords |-> <<i, 0, 0, 128 + i>>] }

\* fs::read(path) followed by Program::new(bytes): unreadable file, invalid
\* binary, or a program with an id.
BinOutcomes ==
    {[ok |-> FALSE, why |-> w, id |-> <<>>] : w \in {"unreadable", "invalid"}}
    \cup {[ok |-> TRUE, why |-> "", id |-> p] : p \in ProgramIds}

\* ------------------------------------------------------------------------
\* tx.rs: execute_instruction
\* ------------------------------------------------------------------------
VARIABLES
    idl,              \* idl.instructions
    ix,               \* the instruction invoked
    args_in,          \* args: the raw values supplied, by key
    extra_bins,       \* extra_bins: key -> path of a binary
    dry_run,
    pc,               \* the position in execute_instruction
    outcome,          \* "running", "returned", "exited" (process::exit), "panicked"
    exit_code,
    events,           \* stdout lines, stderr lines and collaborator calls, in order
    args,             \* the local args, after auto-fill
    parsed_args,      \* Vec of (name, type, value)
    parsed_accounts,  \* Vec of (name, bytes)
    has_errors,
    ix_index,
    instruction_data,
    preview,          \* what the Display block printed
    program_id,
    account_map,
    parsed_arg_map,
    pda_i,            \* index of the next account of the "Resolve PDA accounts" loop
    account_ids,
    nonces,
    tx,               \* the transaction handed to send_tx_public
    call,             \* a library function called on its own, with its arguments
    ret               \* what that call returned

\* The direct library call; execute_instruction never touches it.
lib == <<call, ret>>

inputs == <<idl, ix, args_in, extra_bins, dry_run, lib>>

ctl == <<pc, outcome, exit_code, events>>

parse_state == <<args, parsed_args, parsed_accounts, has_errors>>

build_state == <<ix_index, instruction_data, preview>>

submit_state == <<program_id, account_map, parsed_arg_map, pda_i, account_ids, nonces, tx>>

vars == <<inputs, ctl, parse_state, build_state, submit_state>>

NoPreview ==
    [emitted |-> FALSE, accounts |-> <<>>, args |-> <<>>, program |-> <<>>,
     index |-> 0, instruction |-> <<>>, words |-> <<>>]

NoTx ==
    [sent |-> FALSE, program_id |-> <<>>, account_ids |-> <<>>, nonces |-> <<>>,
     instruction_data |-> <<>>]

NoCall == [fn |-> "none"]

NotReturned == [done |-> FALSE]

Init ==
    /\ idl = Instructions
    /\ \E k \in 1..Len(Instructions) :
          /\ ix = Instructions[k]
          /\ args_in \in ArgMaps(RawChoices[k])
          /\ extra_bins \in ExtraBinsChoices(k)
    /\ dry_run \in BOOLEAN
    /\ pc = "start"
    /\ outcome = "running"
    /\ exit_code = 0
    /\ events = <<>>
    /\ args = <<>>
    /\ parsed_args = <<>>
    /\ parsed_accounts = <<>>
    /\ has_errors = FALSE
    /\ ix_index = 0
    /\ instruction_data = <<>>
    /\ preview = NoPreview
    /\ program_id = <<>>
    /\ account_map = <<>>
    /\ parsed_arg_map = <<>>
    /\ pda_i = 1
    /\ account_ids = <<>>
    /\ nonces = <<>>
    /\ tx = NoTx
    /\ call = NoCall
    /\ ret = NotReturned

\* One line of stdout ("out") or stderr ("err"), or one call of a
\* collaborator ("call").
Ev(ch, kind, data) == [ch |-> ch, kind |-> kind, data |-> data]

\* The next block runs.
Goto(next, evs) ==
    /\ pc' = next
    /\ events' = events \o evs
    /\ UNCHANGED <<outcome, exit_code>>

\* A failure handed back to the caller instead of ending the process.
ExitAsReturn(evs) ==
    /\ pc' = "halt"
    /\ events' = events \o evs
    /\ outcome' = "returned"
    /\ UNCHANGED exit_code

\* eprintln!(..); process::exit(1)
Exit(evs) ==
    /\ pc' = "halt"
    /\ events' = events \o evs
    /\ outcome' = "exited"
    /\ exit_code' = 1

\* return / the end of the function
Return(evs) ==
    /\ pc' = "halt"
    /\ events' = events \o evs
    /\ outcome' = "returned"
    /\ UNCHANGED exit_code

\* A panic unwinds out of execute_instruction.
PanicAbort(evs) ==
    /\ pc' = "halt"
    /\ events' = events \o evs
    /\ outcome' = "panicked"
    /\ exit_code' = 101

\* The orders in which a HashMap may iterate over the keys S.
Orderings(S) ==
    {f \in [1..Cardinality(S) -> S] : \A x \in S : \E i \in 1..Cardinality(S) : f[i] = x}

\* id.iter().map(|w| w.to_string()).collect::<Vec<_>>().join(",")
ProgramIdText(id) == Join([j \in 1..Len(id) |-> ToDecimal(id[j])], <<44>>)

\* The events of one iteration of the auto-fill loop.
AutoFillEvents(key, path, res) ==
    <<Ev("call", "fs_read_bin", path)>>
    \o (IF res.ok \/ res.why = "invalid" THEN <<Ev("call", "program_new_bin", path)>> ELSE <<>>)
    \o (IF res.ok THEN <<Ev("out", "autofill", key)>> ELSE <<>>)

\* Lines 26-44: the instruction name is printed; each key of extra_bins that
\* args lacks is filled from the id of its binary when that can be loaded.
AutoFill ==
    /\ pc = "start"
    /\ LET fill == {k \in DOMAIN extra_bins : k \notin DOMAIN args_in}
       IN \E res \in [fill -> BinOutcomes] : \E order \in Orderings(fill) :
             /\ args' = [k \in {x \in fill : res[x].ok} |-> ProgramIdText(res[k].id)] @@ args_in
             /\ Goto("validate",
                     <<Ev("out", "instruction", ix.name)>>
                     \o Concat([j \in 1..Len(order) |->
                                   AutoFillEvents(order[j], extra_bins[order[j]], res[order[j]])]))
    /\ UNCHANGED <<inputs, parsed_args, parsed_accounts, has_errors, build_state, submit_state>>

NonPdaAccounts(instr) == SelectSeq(instr.accounts, LAMBDA acc : ~acc.pda.some)

\* Only the first absent key is reported.
RequiredMissingFirst(instr, a) ==
    LET argKeys == [j \in 1..Len(instr.args) |-> ArgKey(instr.args[j])]
        accKeys == [j \in 1..Len(NonPdaAccounts(instr)) |->
                       AccountKey(NonPdaAccounts(instr)[j].name)]
        absent == SelectSeq(argKeys \o accKeys, LAMBDA key : key \notin DOMAIN a)
    IN IF absent = <<>> THEN <<>> ELSE <<(<<45, 45>> \o absent[1])>>

\* Lines 47-61: "--key" for every argument and every non-PDA account whose
\* key is not in args, arguments first.
RequiredMissing(instr, a) ==
    LET argKeys == [j \in 1..Len(instr.args) |-> ArgKey(instr.args[j])]
        accKeys == [j \in 1..Len(NonPdaAccounts(instr)) |->
                       AccountKey(NonPdaAccounts(instr)[j].name)]
        absent == SelectSeq(argKeys \o accKeys, LAMBDA key : key \notin DOMAIN a)
    IN [j \in 1..Len(absent) |-> <<45, 45>> \o absent[j]]

\* Lines 46-65: validate required args.
ValidateRequired ==
    /\ pc = "validate"
    /\ LET missing == RequiredMissing(ix, args)
       IN IF missing # <<>>
          THEN Exit(<<Ev("err", "missing", missing)>>)
          ELSE Goto("parse_args", <<>>)
    /\ UNCHANGED <<inputs, parse_state, build_state, submit_state>>

\* What a loop over fallible steps gets through: the steps up to the first
\* panic (all of them when none panics), split into successes and errors.
Collect(rs) ==
    LET panics == {j \in 1..Len(rs) : IsPanic(rs[j])}
        last == IF panics = {} THEN Len(rs) ELSE Min(panics) - 1
        idx == [j \in 1..last |-> j]
    IN [panicked |-> panics # {},
        oks |-> SelectSeq(idx, LAMBDA j : rs[j].ok),
        errs |-> SelectSeq(idx, LAMBDA j : ~rs[j].ok)]

\* The lines eprintln! prints for the steps that failed.
ErrEvents(kind, keys, rs, errs) ==
    [k \in 1..Len(errs) |-> Ev("err", kind, [key |-> keys[errs[k]], err |-> rs[errs[k]].err])]

\* ParsedValue::parse argument by argument, in declared order.
ParseAllArgs(instr, a) ==
    [j \in 1..Len(instr.args) |-> parse_value(a[ArgKey(instr.args[j])], instr.args[j].ty)]

\* Lines 67-77: parse instruction args.
ParseArgs ==
    /\ pc = "parse_args"
    /\ LET keys == [j \in 1..Len(ix.args) |-> ArgKey(ix.args[j])]
           OnCollect(rs, c) ==
               /\ parsed_args' = [k \in 1..Len(c.oks) |->
                                     [name |-> ix.args[c.oks[k]].name,
                                      ty |-> ix.args[c.oks[k]].ty, val |-> rs[c.oks[k]].val]]
               /\ has_errors' = (c.errs # <<>>)
               /\ IF c.panicked THEN PanicAbort(ErrEvents("arg_error", keys, rs, c.errs))
                  ELSE Goto("parse_accounts", ErrEvents("arg_error", keys, rs, c.errs))
           OnParsed(rs) == OnCollect(rs, Collect(rs))
       IN OnParsed(ParseAllArgs(ix, args))
    /\ UNCHANGED <<inputs, args, parsed_accounts, build_state, submit_state>>

\* decode_bytes_32 for each non-PDA account, in declared order.
ParseAllAccounts(instr, a) ==
    [j \in 1..Len(NonPdaAccounts(instr)) |->
        decode_bytes_32(a[AccountKey(NonPdaAccounts(instr)[j].name)])]

\* Lines 79-90: parse non-PDA account IDs; exit when any field failed.
ParseAccounts ==
    /\ pc = "parse_accounts"
    /\ LET accs == NonPdaAccounts(ix)
           keys == [j \in 1..Len(accs) |-> AccountKey(accs[j].name)]
           OnCollect(rs, c) ==
               /\ parsed_accounts' = [k \in 1..Len(c.oks) |->
                                         [name |-> accs[c.oks[k]].name,
                                          bytes |-> rs[c.oks[k]].val]]
               /\ has_errors' = (has_errors \/ c.errs # <<>>)
               /\ IF c.panicked THEN PanicAbort(ErrEvents("account_error", keys, rs, c.errs))
                  ELSE IF has_errors \/ c.errs # <<>>
                  THEN Exit(ErrEvents("account_error", keys, rs, c.errs))
                  ELSE Goto("build", ErrEvents("account_error", keys, rs, c.errs))
           OnParsed(rs) == OnCollect(rs, Collect(rs))
       IN OnParsed(ParseAllAccounts(ix, args))
    /\ UNCHANGED <<inputs, args, parsed_args, build_state, submit_state>>

\* idl.instructions.iter().position(|i| i.name == ix.name).unwrap_or(0)
InstructionIndex(instructions, name) ==
    LET hits == {k \in 1..Len(instructions) : instructions[k].name = name}
    IN IF hits = {} THEN 0 ELSE Min(hits) - 1

\* Lines 92-95: build risc0 serialized data.
BuildInstructionData ==
    /\ pc = "build"
    /\ LET OnData(index, data) ==
               /\ ix_index' = index
               /\ instruction_data' = data.w
               /\ Goto("display", [k \in 1..Len(data.warn) |->
                                      Ev("err", "serialize_warning", data.warn[k])])
           OnIndex(index) == OnData(index, serialize_to_risc0(index, parsed_args))
       IN OnIndex(InstructionIndex(idl, ix.name))
    /\ UNCHANGED <<inputs, parse_state, preview, submit_state>>

\* "auto-computed (PDA)"
S_auto_computed == <<97, 117, 116, 111, 45, 99, 111, 109, 112, 117, 116, 101, 100, 32, 40, 80, 68, 65, 41>>

\* parsed_accounts.iter().find(|(n, _)| *n == acc.name).unwrap()
FindAccount(accounts, name) ==
    accounts[Min({k \in 1..Len(accounts) : accounts[k].name = name})]

\* A preview whose PDA lines carry an address.
BuildPreviewResolved(instr, p_accounts, p_args, index, data) ==
    [emitted |-> TRUE,
     accounts |-> [j \in 1..Len(instr.accounts) |->
                      [name |-> instr.accounts[j].name,
                       text |-> <<48, 120>>
                                \o hex_encode(IF instr.accounts[j].pda.some THEN Zeros(AddrLen)
                                              ELSE FindAccount(p_accounts,
                                                               instr.accounts[j].name).bytes)]],
     args |-> [j \in 1..Len(p_args) |->
                  [name |-> p_args[j].name, text |-> Display(p_args[j].val)]],
     program |-> ProgramPath,
     index |-> index,
     instruction |-> to_pascal_case(instr.name),
     words |-> [j \in 1..Len(data) |-> hex_encode(Reverse(data[j]))]]

\* Lines 97-125: what the Display block prints.
BuildPreview(instr, p_accounts, p_args, index, data) ==
    [emitted |-> TRUE,
     accounts |-> [j \in 1..Len(instr.accounts) |->
                      [name |-> instr.accounts[j].name,
                       text |-> IF instr.accounts[j].pda.some THEN S_auto_computed
                                ELSE <<48, 120>>
                                     \o hex_encode(FindAccount(p_accounts,
                                                               instr.accounts[j].name).bytes)]],
     args |-> [j \in 1..Len(p_args) |->
                  [name |-> p_args[j].name, text |-> Display(p_args[j].val)]],
     program |-> ProgramPath,
     index |-> index,
     instruction |-> to_pascal_case(instr.name),
     words |-> [j \in 1..Len(data) |-> hex_encode(Reverse(data[j]))]]

\* A preview that leaves out the instruction words in dry-run mode.
ShowPreviewShort ==
    /\ pc = "display"
    /\ preview' = [BuildPreview(ix, parsed_accounts, parsed_args, ix_index, instruction_data)
                      EXCEPT !.words = IF dry_run THEN <<>> ELSE @]
    /\ Goto("dry_run", <<Ev("out", "preview", <<>>)>>)
    /\ UNCHANGED <<inputs, parse_state, ix_index, instruction_data, submit_state>>

ShowPreview ==
    /\ pc = "display"
    /\ preview' = BuildPreview(ix, parsed_accounts, parsed_args, ix_index, instruction_data)
    /\ Goto("dry_run", <<Ev("out", "preview", <<>>)>>)
    /\ UNCHANGED <<inputs, parse_state, ix_index, instruction_data, submit_state>>

\* Lines 127-130: if dry_run { ...; return; }
DryRunReturn ==
    /\ pc = "dry_run"
    /\ dry_run
    /\ Return(<<Ev("out", "dry_run", <<>>)>>)
    /\ UNCHANGED <<inputs, parse_state, build_state, submit_state>>

\* Lines 132-144: the program binary is read and loaded, or the process exits.
LoadProgram ==
    /\ \E res \in BinOutcomes :
          IF res.ok
          THEN /\ program_id' = res.id
               /\ Goto("account_map",
                       <<Ev("out", "submitting", <<>>), Ev("call", "fs_read_program", ProgramPath),
                         Ev("call", "program_new", ProgramPath), Ev("out", "program_id", res.id)>>)
          ELSE /\ UNCHANGED program_id
               /\ Exit(<<Ev("out", "submitting", <<>>), Ev("call", "fs_read_program", ProgramPath)>>
                       \o (IF res.why = "invalid"
                           THEN <<Ev("call", "program_new", ProgramPath),
                                  Ev("err", "load_program_failed", ProgramPath)>>
                           ELSE <<Ev("err", "read_program_failed", ProgramPath)>>))
    /\ UNCHANGED <<inputs, parse_state, build_state, account_map, parsed_arg_map, pda_i,
                   account_ids, nonces, tx>>

\* Submission starting whatever dry_run says.
ReadProgramInDryRun == pc = "dry_run" /\ LoadProgram

\* Submission starts only when the dry-run return at lines 127-130 was not taken.
ReadProgram == pc = "dry_run" /\ ~dry_run /\ LoadProgram

\* HashMap::insert of each (key, value) pair of a Vec, in order.
RECURSIVE InsertAll(_, _, _)
InsertAll(map, pairs, i) ==
    IF i > Len(pairs) THEN map
    ELSE InsertAll((pairs[i][1] :> pairs[i][2]) @@ map, pairs, i + 1)

\* Lines 146-152: build account map for PDA resolution.
BuildAccountMap ==
    /\ pc = "account_map"
    /\ account_map' = InsertAll(<<>>, [k \in 1..Len(parsed_accounts) |->
                                          <<parsed_accounts[k].name, parsed_accounts[k].bytes>>], 1)
    /\ Goto("seed_accounts", <<>>)
    /\ UNCHANGED <<inputs, parse_state, build_state, program_id, parsed_arg_map, pda_i,
                   account_ids, nonces, tx>>

\* The Account seeds of the PDA accounts, in the order the loops visit them.
SeedAccountRefs(instr) ==
    Concat([j \in 1..Len(instr.accounts) |->
               IF instr.accounts[j].pda.some
               THEN LET seeds == SelectSeq(instr.accounts[j].pda.seeds,
                                           LAMBDA seed : seed.kind = "account")
                    IN [k \in 1..Len(seeds) |-> [pda |-> instr.accounts[j].name,
                                                 path |-> seeds[k].s]]
               ELSE <<>>])

\* Lines 155-177, from the i-th reference on.  st: the account map, the lines
\* printed, and how the loop ended ("" for its normal end).
RECURSIVE ResolveSeedRefs(_, _, _, _)
ResolveSeedRefs(refs, a, i, st) ==
    IF i > Len(refs) \/ st.end # "" THEN st
    ELSE LET path == refs[i].path
             key == AccountKey(refs[i].path)
             OnDecoded(r) ==
                 IF r.ok
                 THEN ResolveSeedRefs(refs, a, i + 1,
                         [st EXCEPT !.map = (path :> r.val) @@ @,
                                    !.evs = Append(@, Ev("out", "using_seed_account",
                                                         [key |-> key, path |-> path]))])
                 ELSE IF IsPanic(r) THEN [st EXCEPT !.end = "panic"]
                 ELSE [st EXCEPT !.end = "exit",
                                 !.evs = Append(@, Ev("err", "seed_account_error",
                                                      [key |-> key, err |-> r.err]))]
         IN IF path \in DOMAIN st.map THEN ResolveSeedRefs(refs, a, i + 1, st)
            ELSE IF key \in DOMAIN a THEN OnDecoded(decode_bytes_32(a[key]))
            ELSE [st EXCEPT !.end = "exit",
                            !.evs = Append(@, Ev("err", "pda_requires_account",
                                                 [pda |-> refs[i].pda, path |-> path,
                                                  key |-> key]))]

\* Lines 154-177: resolve external account references needed by PDA seeds.
ResolveSeedAccounts ==
    /\ pc = "seed_accounts"
    /\ LET OnRefs(st) ==
               IF st.end = "" THEN account_map' = st.map /\ Goto("arg_map", st.evs)
               ELSE IF st.end = "exit" THEN UNCHANGED account_map /\ Exit(st.evs)
               ELSE UNCHANGED account_map /\ PanicAbort(st.evs)
       IN OnRefs(ResolveSeedRefs(SeedAccountRefs(ix), args, 1,
                                 [map |-> account_map, evs |-> <<>>, end |-> ""]))
    /\ UNCHANGED <<inputs, parse_state, build_state, program_id, parsed_arg_map, pda_i,
                   account_ids, nonces, tx>>

\* Lines 179-182: the parsed arguments by name.
BuildArgMap ==
    /\ pc = "arg_map"
    /\ parsed_arg_map' = InsertAll(<<>>, [k \in 1..Len(parsed_args) |->
                                             <<parsed_args[k].name, parsed_args[k].val>>], 1)
    /\ pda_i' = 1
    /\ Goto("resolve_pda", <<>>)
    /\ UNCHANGED <<inputs, parse_state, build_state, program_id, account_map, account_ids,
                   nonces, tx>>

\* A PDA loop that reports a derivation error and goes on to the next account.
ResolvePdaKeepGoing ==
    /\ pc = "resolve_pda"
    /\ pda_i <= Len(ix.accounts)
    /\ LET acc == ix.accounts[pda_i]
           OnPda(r) ==
               IF r.ok
               THEN /\ pda_i' = pda_i + 1
                    /\ account_map' = (acc.name :> r.val) @@ account_map
                    /\ Goto("resolve_pda", <<Ev("out", "pda", [name |-> acc.name, id |-> r.val])>>)
               ELSE /\ pda_i' = pda_i + 1
                    /\ UNCHANGED account_map
                    /\ Goto("resolve_pda",
                            <<Ev("err", "pda_failed", [name |-> acc.name, err |-> r.err])>>)
       IN IF ~acc.pda.some
          THEN /\ pda_i' = pda_i + 1
               /\ Goto("resolve_pda", <<>>)
               /\ UNCHANGED account_map
          ELSE OnPda(compute_pda_from_seeds(acc.pda.seeds, program_id, account_map,
                                            parsed_arg_map))
    /\ UNCHANGED <<inputs, parse_state, build_state, program_id, parsed_arg_map, account_ids,
                   nonces, tx>>

\* Lines 184-198: one iteration of the loop that resolves PDA accounts.
ResolvePda ==
    /\ pc = "resolve_pda"
    /\ pda_i <= Len(ix.accounts)
    /\ LET acc == ix.accounts[pda_i]
           OnPda(r) ==
               IF r.ok
               THEN /\ pda_i' = pda_i + 1
                    /\ account_map' = (acc.name :> r.val) @@ account_map
                    /\ Goto("resolve_pda", <<Ev("out", "pda", [name |-> acc.name, id |-> r.val])>>)
               ELSE /\ UNCHANGED <<pda_i, account_map>>
                    /\ Exit(<<Ev("err", "pda_failed", [name |-> acc.name, err |-> r.err])>>)
       IN IF ~acc.pda.some
          THEN /\ pda_i' = pda_i + 1
               /\ Goto("resolve_pda", <<>>)
               /\ UNCHANGED account_map
          ELSE OnPda(compute_pda_from_seeds(acc.pda.seeds, program_id, account_map,
                                            parsed_arg_map))
    /\ UNCHANGED <<inputs, parse_state, build_state, program_id, parsed_arg_map, account_ids,
                   nonces, tx>>

\* An assembly that lists the account ids in reverse declaration order.
BuildAccountIdsReversed ==
    /\ pc = "resolve_pda"
    /\ pda_i > Len(ix.accounts)
    /\ LET unresolved == {j \in 1..Len(ix.accounts) : ix.accounts[j].name \notin DOMAIN account_map}
       IN IF unresolved # {}
          THEN /\ UNCHANGED account_ids
               /\ Exit(<<Ev("err", "account_not_resolved", ix.accounts[Min(unresolved)].name)>>)
          ELSE /\ account_ids' = Reverse([j \in 1..Len(ix.accounts) |->
                                             account_map[ix.accounts[j].name]])
               /\ Goto("wallet", <<>>)
    /\ UNCHANGED <<inputs, parse_state, build_state, program_id, account_map, parsed_arg_map,
                   pda_i, nonces, tx>>

\* Lines 200-207: the account ids in declared order, or exit at the first
\* account that is not in the map.
BuildAccountIds ==
    /\ pc = "resolve_pda"
    /\ pda_i > Len(ix.accounts)
    /\ LET unresolved == {j \in 1..Len(ix.accounts) : ix.accounts[j].name \notin DOMAIN account_map}
       IN IF unresolved # {}
          THEN /\ UNCHANGED account_ids
               /\ Exit(<<Ev("err", "account_not_resolved", ix.accounts[Min(unresolved)].name)>>)
          ELSE /\ account_ids' = [j \in 1..Len(ix.accounts) |-> account_map[ix.accounts[j].name]]
               /\ Goto("wallet", <<>>)
    /\ UNCHANGED <<inputs, parse_state, build_state, program_id, account_map, parsed_arg_map,
                   pda_i, nonces, tx>>

\* Lines 209-213: WalletCore::from_env().
InitWallet ==
    /\ pc = "wallet"
    /\ \E ok \in BOOLEAN :
          IF ok THEN Goto("nonces", <<Ev("call", "wallet_from_env", <<>>)>>)
          ELSE Exit(<<Ev("call", "wallet_from_env", <<>>), Ev("err", "wallet_failed", <<>>)>>)
    /\ UNCHANGED <<inputs, parse_state, build_state, submit_state>>

\* Lines 215-218: the ids of the signer accounts, in declared order.
SignerAccounts(instr, map) ==
    LET signers == SelectSeq(instr.accounts, LAMBDA acc : acc.signer)
    IN [j \in 1..Len(signers) |-> map[signers[j].name]]

\* Lines 220-227: the nonces of the signer accounts.
FetchNonces ==
    /\ pc = "nonces"
    /\ LET signer_accounts == SignerAccounts(ix, account_map)
       IN IF signer_accounts = <<>>
          THEN nonces' = <<>> /\ Goto("signing_keys", <<>>)
          ELSE \E ok \in BOOLEAN :
                  IF ok
                  THEN /\ nonces' = [j \in 1..Len(signer_accounts) |-> 0]
                       /\ Goto("signing_keys", <<Ev("call", "get_accounts_nonces", signer_accounts)>>)
                  ELSE /\ UNCHANGED nonces
                       /\ Exit(<<Ev("call", "get_accounts_nonces", signer_accounts),
                                 Ev("err", "nonces_failed", <<>>)>>)
    /\ UNCHANGED <<inputs, parse_state, build_state, program_id, account_map, parsed_arg_map,
                   pda_i, account_ids, tx>>

\* Lines 229-234: the signing key of each signer account; found signers have
\* a key, the next one (if any) has none.
GetSigningKeys ==
    /\ pc = "signing_keys"
    /\ LET signer_accounts == SignerAccounts(ix, account_map)
       IN \E found \in 0..Len(signer_accounts) :
             LET calls == [j \in 1..(IF found < Len(signer_accounts) THEN found + 1 ELSE found) |->
                              Ev("call", "get_signing_key", signer_accounts[j])]
             IN IF found = Len(signer_accounts) THEN Goto("send", calls)
                ELSE Exit(Append(calls, Ev("err", "signing_key_missing",
                                           signer_accounts[found + 1])))
    /\ UNCHANGED <<inputs, parse_state, build_state, submit_state>>

\* A failed submission that goes on to confirmation polling.
SendTxKeepGoing ==
    /\ pc = "send"
    /\ LET message == [sent |-> TRUE, program_id |-> program_id, account_ids |-> account_ids,
                       nonces |-> nonces, instruction_data |-> instruction_data]
       IN /\ tx' = message
          /\ \E ok \in BOOLEAN :
                IF ok
                THEN Goto("poll", <<Ev("call", "sign", message), Ev("call", "send_tx_public", message),
                                    Ev("out", "submitted", <<>>)>>)
                ELSE Goto("poll", <<Ev("call", "sign", message), Ev("call", "send_tx_public", message),
                                    Ev("err", "submit_failed", <<>>)>>)
    /\ UNCHANGED <<inputs, parse_state, build_state, program_id, account_map, parsed_arg_map,
                   pda_i, account_ids, nonces>>

\* Lines 236-247: the message is built and signed and the transaction sent.
SendTx ==
    /\ pc = "send"
    /\ LET message == [sent |-> TRUE, program_id |-> program_id, account_ids |-> account_ids,
                       nonces |-> nonces, instruction_data |-> instruction_data]
       IN /\ tx' = message
          /\ \E ok \in BOOLEAN :
                IF ok
                THEN Goto("poll", <<Ev("call", "sign", message), Ev("call", "send_tx_public", message),
                                    Ev("out", "submitted", <<>>)>>)
                ELSE Exit(<<Ev("call", "sign", message), Ev("call", "send_tx_public", message),
                            Ev("err", "submit_failed", <<>>)>>)
    /\ UNCHANGED <<inputs, parse_state, build_state, program_id, account_map, parsed_arg_map,
                   pda_i, account_ids, nonces>>

\* Lines 249-260: confirmation polling.
PollTx ==
    /\ pc = "poll"
    /\ \E ok \in BOOLEAN :
          IF ok THEN Return(<<Ev("call", "poll_tx", <<>>), Ev("out", "confirmed", <<>>)>>)
          ELSE Exit(<<Ev("call", "poll_tx", <<>>), Ev("err", "not_confirmed", <<>>)>>)
    /\ UNCHANGED <<inputs, parse_state, build_state, submit_state>>

Next ==
    \/ AutoFill
    \/ ValidateRequired
    \/ ParseArgs
    \/ ParseAccounts
    \/ BuildInstructionData
    \/ ShowPreview
    \/ DryRunReturn
    \/ ReadProgram
    \/ BuildAccountMap
    \/ ResolveSeedAccounts
    \/ BuildArgMap
    \/ ResolvePda
    \/ BuildAccountIds
    \/ InitWallet
    \/ FetchNonces
    \/ GetSigningKeys
    \/ SendTx
    \/ PollTx

Spec == Init /\ [][Next]_vars

\* ------------------------------------------------------------------------
\* Properties of execute_instruction
\* ------------------------------------------------------------------------
\* The positions in events of the lines (or calls) of one kind.
Positions(ch, kind) == {i \in DOMAIN events : events[i].ch = ch /\ events[i].kind = kind}

Kinds(ch) == {events[i].kind : i \in {j \in DOMAIN events : events[j].ch = ch}}

\* The error lines of the parse phase, which ends the process only once every
\* field has been tried.
ParseErrorKinds == {"arg_error", "account_error"}

\* The error lines after which the process ends at once.
FailFastKinds ==
    {"missing", "read_program_failed", "load_program_failed", "seed_account_error",
     "pda_requires_account", "pda_failed", "account_not_resolved", "wallet_failed",
     "nonces_failed", "signing_key_missing", "submit_failed", "not_confirmed"}

\* The collaborator calls of the dispatch step.
DispatchCalls ==
    {"fs_read_program", "program_new", "wallet_from_env", "get_accounts_nonces", "sign",
     "get_signing_key", "send_tx_public", "poll_tx"}

\* The keys execute_instruction requires: one per declared argument and one
\* per non-PDA account.
RequiredKeys(instr) ==
    {ArgKey(instr.args[j]) : j \in 1..Len(instr.args)}
    \cup {AccountKey(instr.accounts[j].name) :
             j \in {k \in 1..Len(instr.accounts) : ~instr.accounts[k].pda.some}}

\* execute_instruction is past its parse phase.
PastParse == pc \notin {"start", "validate", "parse_args", "parse_accounts"}

\* C1 (as stated): every failure of the pipeline comes back to the caller as
\* an error value, so no invocation in which a failure was reported ends with
\* the process terminated.
C1_FailuresAreReturned ==
    Kinds("err") \cap (FailFastKinds \cup ParseErrorKinds) # {} => outcome # "exited"

\* C1 (amended): a failure is never returned as a value.  Every fail-fast
\* failure is printed on stderr and ends the process with exit status 1 in
\* the same step; parse errors end the process with status 1 once the parse
\* phase is through, unless a field's parser panicked first; the process is
\* ended only after a failure was printed; and execute_instruction returns to
\* its caller only when no failure was reported.
C1_FailuresExitTheProcess ==
    /\ Kinds("err") \cap FailFastKinds # {} => outcome = "exited" /\ exit_code = 1
    /\ (PastParse /\ Kinds("err") \cap ParseErrorKinds # {})
          => outcome \in {"exited", "panicked"}
    /\ outcome = "exited"
          => /\ exit_code = 1
             /\ pc = "halt"
             /\ Kinds("err") \cap (FailFastKinds \cup ParseErrorKinds) # {}
    /\ outcome = "returned" => Kinds("err") \cap (FailFastKinds \cup ParseErrorKinds) = {}

\* An invocation whose submission failed and whose process was terminated.
C1_Witness ==
    /\ outcome = "exited"
    /\ exit_code = 1
    /\ "submit_failed" \in Kinds("err")

\* C2 (as stated): when the preview is emitted every declared account, PDA
\* accounts included, is shown with its resolved 32-byte address.
C2_PreviewShowsResolvedAccounts ==
    preview.emitted =>
        \A j \in 1..Len(ix.accounts) :
            /\ Len(preview.accounts[j].text) = 2 + 2 * AddrLen
            /\ StartsWith(preview.accounts[j].text, <<48, 120>>)

\* C2 (amended): the preview comes before dependency resolution and PDA
\* derivation.  When it is emitted the resolved-account map is still empty;
\* it shows each non-PDA account with the address parsed from its raw value
\* and each PDA account as "auto-computed (PDA)"; a PDA is derived only after
\* the preview, and never in dry-run mode.
C2_PreviewPrecedesResolution ==
    /\ preview.emitted =>
          \A j \in 1..Len(ix.accounts) :
              preview.accounts[j] =
                  [name |-> ix.accounts[j].name,
                   text |-> IF ix.accounts[j].pda.some THEN S_auto_computed
                            ELSE <<48, 120>> \o hex_encode(decode_bytes_32(
                                     args[AccountKey(ix.accounts[j].name)]).val)]
    /\ \A i \in Positions("out", "pda") : \E p \in Positions("out", "preview") : p < i
    /\ pc \in {"start", "validate", "parse_args", "parse_accounts", "build", "display", "dry_run"}
          => account_map = <<>>
    /\ dry_run => account_map = <<>> /\ Positions("out", "pda") = {}

\* A dry-run invocation of an instruction with a PDA account has returned
\* after its preview.
C2_Witness ==
    /\ preview.emitted
    /\ dry_run
    /\ outcome = "returned"
    /\ \E j \in 1..Len(ix.accounts) : ix.accounts[j].pda.some

\* An Account seed of PDA account pda names path, a PDA account declared
\* before it.
NamesEarlierPda(instr, pda, path) ==
    \E j, k \in 1..Len(instr.accounts) :
        /\ j < k
        /\ instr.accounts[j].name = path
        /\ instr.accounts[j].pda.some
        /\ instr.accounts[k].name = pda

\* C3: a seed of a PDA account that names an earlier-declared PDA account
\* resolves to that PDA's derived address, so no invocation fails by asking
\* the caller for the identifier of the referenced PDA account.
C3_EarlierPdaSeedResolves ==
    \A i \in Positions("err", "pda_requires_account") :
        ~NamesEarlierPda(ix, events[i].data.pda, events[i].data.path)

\* C4: the resolved-account map is append-only: a name that is mapped keeps
\* its address in every later step.
C4_AccountMapAppendOnly ==
    [][\A n \in DOMAIN account_map :
          n \in DOMAIN account_map' /\ account_map'[n] = account_map[n]]_vars

\* C5: an invocation with an argument of Defined type ends with a reported
\* error: it neither returns normally nor hands a payload to submission.
C5_DefinedTypeIsReported ==
    (\E j \in 1..Len(ix.args) : ix.args[j].ty.k = "Defined")
        => ~tx.sent /\ outcome # "returned"

\* The required keys that args lacks, each written "--key".
AbsentFlags == {<<45, 45>> \o k : k \in {r \in RequiredKeys(ix) : r \notin DOMAIN args}}

\* C6: when a declared argument or a non-PDA account has no raw value, the
\* invocation fails with one error that lists every missing name, arguments
\* and accounts alike, and nothing is parsed, previewed or dispatched; when
\* nothing is missing, no such error is reported.
C6_AllMissingListedAtOnce ==
    pc \notin {"start", "validate"} =>
        IF AbsentFlags # {}
        THEN /\ outcome = "exited"
             /\ Positions("err", "missing") = {Len(events)}
             /\ Kinds("err") = {"missing"}
             /\ {events[Len(events)].data[k] : k \in DOMAIN events[Len(events)].data}
                   = AbsentFlags
             /\ Len(events[Len(events)].data)
                   = Cardinality({j \in 1..Len(ix.args) : ArgKey(ix.args[j]) \notin DOMAIN args})
                     + Cardinality({j \in 1..Len(NonPdaAccounts(ix)) :
                                       AccountKey(NonPdaAccounts(ix)[j].name) \notin DOMAIN args})
             /\ parsed_args = <<>> /\ parsed_accounts = <<>> /\ ~has_errors
             /\ ~preview.emitted /\ Kinds("out") \subseteq {"instruction", "autofill"}
             /\ Kinds("call") \cap DispatchCalls = {} /\ ~tx.sent
        ELSE Positions("err", "missing") = {}

\* An invocation that lacks an argument and an account has failed, naming both.
C6_Witness ==
    /\ outcome = "exited"
    /\ \E i \in Positions("err", "missing") :
          /\ Len(events[i].data) >= 2
          /\ \E k \in DOMAIN events[i].data : events[i].data[k] = <<45, 45>> \o ArgKey(ix.args[1])
          /\ \E k \in DOMAIN events[i].data : \E a \in 1..Len(ix.accounts) :
                events[i].data[k] = <<45, 45>> \o AccountKey(ix.accounts[a].name)

\* The keys of the fields whose raw value is malformed.
MalformedArgKeys ==
    {ArgKey(ix.args[j]) :
        j \in {k \in 1..Len(ix.args) : ~parse_value(args[ArgKey(ix.args[k])], ix.args[k].ty).ok}}

MalformedAccountKeys ==
    {AccountKey(NonPdaAccounts(ix)[j].name) :
        j \in {k \in 1..Len(NonPdaAccounts(ix)) :
                  ~decode_bytes_32(args[AccountKey(NonPdaAccounts(ix)[k].name)]).ok}}

\* C7: the parse phase tries every field: once it is over, one error has
\* been reported for each malformed argument and each malformed account
\* identifier, and an invocation with a malformed field has been aborted
\* without preview or dispatch.
C7_EveryFieldErrorReported ==
    (PastParse /\ AbsentFlags = {}) =>
        /\ {events[i].data.key : i \in Positions("err", "arg_error")} = MalformedArgKeys
        /\ {events[i].data.key : i \in Positions("err", "account_error")} = MalformedAccountKeys
        /\ (MalformedArgKeys \cup MalformedAccountKeys # {})
              => /\ outcome = "exited"
                 /\ ~preview.emitted
                 /\ Kinds("call") \cap DispatchCalls = {}

\* The invocation passed the completeness check and the parse phase: every
\* declared argument and every non-PDA account has a parsed value.
PassedParse ==
    /\ pc \notin {"start", "validate", "parse_args", "parse_accounts", "build", "display"}
    /\ "missing" \notin Kinds("err")
    /\ Len(parsed_args) = Len(ix.args)
    /\ Len(parsed_accounts) = Len(NonPdaAccounts(ix))

\* C8: every invocation that passed the completeness check and the parse
\* phase has emitted the preview exactly once, before any call of the
\* dispatch step, and the preview is a function of the instruction and the
\* raw values alone: the display text of each parsed argument, the account
\* lines, and the hex of each word of the payload, whatever dry_run is.
C8_PreviewAlwaysProduced ==
    PassedParse =>
        /\ preview.emitted
        /\ Cardinality(Positions("out", "preview")) = 1
        /\ \A p \in Positions("out", "preview") :
              \A i \in DOMAIN events :
                  (events[i].ch = "call" /\ events[i].kind \in DispatchCalls) => p < i
        /\ preview.args =
              [j \in 1..Len(ix.args) |->
                  [name |-> ix.args[j].name,
                   text |-> Display(parse_value(args[ArgKey(ix.args[j])], ix.args[j].ty).val)]]
        /\ Len(preview.accounts) = Len(ix.accounts)
        /\ preview.instruction = to_pascal_case(ix.name)
        /\ preview.index = InstructionIndex(idl, ix.name)
        /\ preview.words = [j \in 1..Len(instruction_data) |->
                               hex_encode(Reverse(instruction_data[j]))]
        /\ instruction_data =
              serialize_to_risc0(InstructionIndex(idl, ix.name),
                  [j \in 1..Len(ix.args) |->
                      [name |-> ix.args[j].name, ty |-> ix.args[j].ty,
                       val |-> parse_value(args[ArgKey(ix.args[j])], ix.args[j].ty).val]]).w

\* A submitting invocation has sent its transaction after the preview.
C8_Witness ==
    /\ PassedParse
    /\ ~dry_run
    /\ preview.emitted
    /\ preview.words # <<>>
    /\ "send_tx_public" \in Kinds("call")

\* C9: in dry-run mode no collaborator of the dispatch step is called, no
\* transaction is sent, and an invocation that got to its preview returns.
C9_DryRunSkipsDispatch ==
    dry_run =>
        /\ Kinds("call") \cap DispatchCalls = {}
        /\ ~tx.sent
        /\ program_id = <<>>
        /\ "submitting" \notin Kinds("out")
        /\ (pc = "halt" /\ preview.emitted) => outcome = "returned"

\* A dry-run invocation has printed its preview and returned.
C9_Witness ==
    /\ dry_run
    /\ outcome = "returned"
    /\ "dry_run" \in Kinds("out")
    /\ "preview" \in Kinds("out")

\* C10: the transaction is submitted at most once, and a failed submission
\* is the last thing the invocation does: the failure is reported right after
\* the one call, the process ends, and no collaborator is called afterwards.
C10_SubmitFailureIsFatal ==
    /\ Cardinality(Positions("call", "send_tx_public")) <= 1
    /\ \A i \in Positions("err", "submit_failed") :
          /\ i = Len(events)
          /\ events[i - 1].ch = "call" /\ events[i - 1].kind = "send_tx_public"
          /\ outcome = "exited"
          /\ pc = "halt"
          /\ "poll_tx" \notin Kinds("call")

\* A submission has failed.
C10_Witness ==
    /\ "submit_failed" \in Kinds("err")
    /\ tx.sent
    /\ Cardinality(Positions("call", "send_tx_public")) = 1

\* What holds in every state of an invocation that stops at its first
\* unrecoverable error.
StopsAtFirstError ==
    /\ \A i \in DOMAIN events :
          (events[i].ch = "err" /\ events[i].kind \in FailFastKinds)
              => i = Len(events) /\ pc = "halt" /\ outcome = "exited"
    /\ (PastParse /\ Kinds("err") \cap ParseErrorKinds # {})
          => /\ pc = "halt"
             /\ Kinds("err") \subseteq ParseErrorKinds
             /\ Kinds("out") \subseteq {"instruction", "autofill"}
             /\ Kinds("call") \cap DispatchCalls = {}
             /\ instruction_data = <<>> /\ ~preview.emitted /\ account_map = <<>>
    /\ outcome = "panicked" => pc = "halt" /\ ~tx.sent
    /\ tx.sent
          => /\ Kinds("err") \cap (FailFastKinds \cup ParseErrorKinds)
                   \subseteq {"submit_failed", "not_confirmed"}
             /\ Len(parsed_args) = Len(ix.args)
             /\ Len(parsed_accounts) = Len(NonPdaAccounts(ix))
             /\ \A j \in 1..Len(ix.accounts) : ix.accounts[j].name \in DOMAIN account_map
             /\ Len(account_ids) = Len(ix.accounts)
             /\ preview.emitted

\* C11: the invocation is terminal on its first unrecoverable error: a
\* failure of the completeness check, of dependency resolution, of PDA
\* derivation or of assembly is the last thing the invocation does, a failed
\* parse phase is followed by no later stage, a halted invocation takes no
\* further step, and a transaction is sent only when every earlier stage
\* succeeded.
C11_TerminalOnFirstError == [](StopsAtFirstError) /\ [][pc # "halt"]_vars

\* An invocation has stopped at a failed PDA derivation, before assembly.
C11_Witness ==
    /\ "pda_failed" \in Kinds("err")
    /\ outcome = "exited"
    /\ account_ids = <<>>
    /\ ~tx.sent

\* The address the j-th declared account resolves to: the decoded
\* --<name>-account value, or the address derived from the PDA's seeds.
ExpectedAccountId(j) ==
    IF ix.accounts[j].pda.some
    THEN compute_pda_from_seeds(ix.accounts[j].pda.seeds, program_id, account_map,
                                parsed_arg_map).val
    ELSE decode_bytes_32(args[AccountKey(ix.accounts[j].name)]).val

Assembled == pc \in {"wallet", "nonces", "signing_keys", "send", "poll"} \/ tx.sent

\* C12: the account list handed to dispatch has one entry per declared
\* account, in declared order; entry j is the supplied address of a non-PDA
\* account and the derived address of a PDA account, and the message that is
\* sent carries exactly this list.
C12_AccountListInDeclaredOrder ==
    /\ Assembled
          => /\ Len(account_ids) = Len(ix.accounts)
             /\ \A j \in 1..Len(ix.accounts) : account_ids[j] = ExpectedAccountId(j)
    /\ tx.sent => tx.account_ids = account_ids

\* A transaction was sent for an instruction that declares a supplied and a
\* derived account with different addresses.
C12_Witness ==
    /\ tx.sent
    /\ \E j, k \in 1..Len(ix.accounts) :
          /\ ix.accounts[j].pda.some /\ ~ix.accounts[k].pda.some
          /\ tx.account_ids[j] # tx.account_ids[k]

\* The position of the invoked instruction in idl.instructions, from zero.
ActualPosition == Min({k \in 1..Len(idl) : idl[k] = ix}) - 1

\* C13: the payload starts with one selector word equal to the position of
\* the invoked instruction in the IDL's instruction list, also when its name
\* is repeated in the list, and continues with the encodings of the declared
\* arguments in order.
C13_SelectorIsActualPosition ==
    instruction_data # <<>>
        => /\ ix_index = ActualPosition
           /\ Head(instruction_data) = Word(ActualPosition)
           /\ instruction_data = serialize_to_risc0(ActualPosition, parsed_args).w

\* ------------------------------------------------------------------------
\* The library functions called on their own
\* ------------------------------------------------------------------------
N_key == <<107, 101, 121>>

\* Everything execute_instruction owns.
tx_vars == <<idl, ix, args_in, extra_bins, dry_run, ctl, parse_state, build_state, submit_state>>

\* execute_instruction is not running.
NotInvoked ==
    /\ idl = Instructions /\ ix = Ix_transfer
    /\ args_in = <<>> /\ extra_bins = <<>> /\ dry_run = TRUE
    /\ pc = "start" /\ outcome = "running" /\ exit_code = 0 /\ events = <<>>
    /\ args = <<>> /\ parsed_args = <<>> /\ parsed_accounts = <<>> /\ has_errors = FALSE
    /\ ix_index = 0 /\ instruction_data = <<>> /\ preview = NoPreview
    /\ program_id = <<>> /\ account_map = <<>> /\ parsed_arg_map = <<>> /\ pda_i = 1
    /\ account_ids = <<>> /\ nonces = <<>> /\ tx = NoTx

Returned(v) == [done |-> TRUE, val |-> v]

\* The longest seed list of a derivation.
MaxSeeds == 3

\* The sequences over S of length at most n.
SeqsUpTo(S, n) == UNION {[1..k -> S] : k \in 0..n}

\* Seeds of every kind; "owner" is not in the account map, "memo" is not
\* among the parsed arguments, and the last constant has 33 bytes.
SeedPool ==
    {SeedConst(N_vault), SeedConst(N_pool), SeedAccount(N_mint), SeedAccount(N_owner),
     SeedArg(N_index), SeedArg(N_key), SeedArg(N_memo), SeedConst(RawLong)}

PdaAccountMap == (N_mint :> [i \in 1..AddrLen |-> 160 + i])

\* index = 7 as u64, key = [0u8; 32]
PdaParsedArgs ==
    (N_index :> VU64(LeBytes(7, 8))) @@ (N_key :> VByteArray(Zeros(AddrLen)))

PdaProgramId == [i \in 1..ProgramIdWords |-> Word(i)]

PdaCalls ==
    {[fn |-> "compute_pda_from_seeds", seeds |-> s, program_id |-> PdaProgramId,
      account_map |-> PdaAccountMap, parsed_args |-> PdaParsedArgs] :
        s \in SeqsUpTo(SeedPool, MaxSeeds)}

\* compute_pda_from_seeds(&seeds, &program_id, &account_map, &parsed_args)
CallComputePda ==
    /\ call.fn = "compute_pda_from_seeds"
    /\ ~ret.done
    /\ ret' = Returned(compute_pda_from_seeds(call.seeds, call.program_id, call.account_map,
                                              call.parsed_args))
    /\ UNCHANGED <<call, tx_vars>>

Derived == call.fn = "compute_pda_from_seeds" /\ ret.done /\ ret.val.ok

\* The seed list of the call rearranged by the permutation f.
Permuted(seeds, f) == [j \in 1..Len(seeds) |-> seeds[f[j]]]

\* C14: compute_pda_from_seeds returns the same address for every
\* permutation of a non-empty list of seeds that all resolve.
C14_SeedOrderIrrelevant ==
    Derived
        => \A f \in Orderings(1..Len(call.seeds)) :
              compute_pda_from_seeds(Permuted(call.seeds, f), call.program_id,
                                     call.account_map, call.parsed_args) = ret.val

\* An address was derived from three seeds of three kinds.
C14_Witness ==
    /\ Derived
    /\ Len(call.seeds) = 3
    /\ {call.seeds[j].kind : j \in 1..3} = {"const", "account", "arg"}
    /\ call.seeds[3].s = N_index

\* The seeds of the pool that resolve to 32 zero bytes.
ZeroSeeds ==
    {z \in SeedPool :
        resolve_seed(z, call.program_id, call.account_map, call.parsed_args)
            = Ok(Zeros(AddrLen))}

\* C15: a seed that resolves to 32 zero bytes, added at either end of the
\* list, leaves the derived address unchanged, and a one-seed list derives the
\* address from that seed's bytes directly.
C15_ZeroSeedIsNeutral ==
    Derived
        => /\ \A z \in ZeroSeeds :
                 /\ compute_pda_from_seeds(call.seeds \o <<z>>, call.program_id,
                                           call.account_map, call.parsed_args) = ret.val
                 /\ compute_pda_from_seeds(<<z>> \o call.seeds, call.program_id,
                                           call.account_map, call.parsed_args) = ret.val
           /\ Len(call.seeds) = 1
                 => ret.val.val = AccountIdFrom(call.program_id,
                        resolve_seed(call.seeds[1], call.program_id, call.account_map,
                                     call.parsed_args).val)

\* The address of [Const, Arg key] with key = [0u8; 32] was derived.
C15_Witness ==
    /\ Derived
    /\ call.seeds = <<SeedConst(N_vault), SeedArg(N_key)>>
    /\ ZeroSeeds = {SeedArg(N_key)}
    /\ ret.val.val = AccountIdFrom(call.program_id, PadRight32(N_vault))

\* ParsedValue::parse followed by the encoding of the value, as tx.rs does
\* for each argument.
ParseEncode(raw, ty) ==
    LET OnParsed(r) == IF r.ok THEN Ok(serialize_value_risc0(ty, r.val)) ELSE r
    IN OnParsed(parse_value(raw, ty))

\* ASCII upper case.
ToUpper(s) == [i \in 1..Len(s) |-> IF s[i] \in 97..122 THEN s[i] - 32 ELSE s[i]]

\* Decimal texts of the unsigned number with little-endian bytes le.
IntForms(le) ==
    {ToDecimal(le), <<43>> \o ToDecimal(le), <<48, 48>> \o ToDecimal(le)}

\* Texts of the program id with words id: decimal components, components
\* after blanks, 0x components, and the 64 hex characters of its bytes.
ProgramIdForms(id) ==
    {Join([j \in 1..Len(id) |-> ToDecimal(id[j])], <<44>>),
     Join([j \in 1..Len(id) |-> ToDecimal(id[j])], <<44, 32>>),
     Join([j \in 1..Len(id) |-> <<48, 120>> \o hex_encode(Reverse(id[j]))], <<44>>),
     Join([j \in 1..Len(id) |-> <<48, 88>> \o ToUpper(hex_encode(Reverse(id[j])))], <<44>>),
     hex_encode(Concat(id)),
     ToUpper(hex_encode(Concat(id)))}

\* The raw strings that denote value v of primitive kind prim.
Forms(prim, v) ==
    IF prim \in {S_u8, S_u32, S_u64, S_u128} THEN IntForms(v)
    ELSE IF prim = S_program_id THEN ProgramIdForms(v)
    ELSE IF prim = S_bool THEN (IF v THEN {S_true, <<49>>, S_yes} ELSE {S_false, <<48>>, S_no})
    ELSE {v}

\* Values of each primitive kind; 256 is not a u8.
PrimValues ==
    (S_u8 :> {<<0>>, <<7>>, <<255>>, <<0, 1>>})
    @@ (S_u32 :> {Word(0), <<255, 255, 255, 255>>})
    @@ (S_u64 :> {<<1, 0, 0, 0, 1, 0, 0, 0>>, <<8, 7, 6, 5, 4, 3, 2, 1>>, [i \in 1..8 |-> 255]})
    @@ (S_u128 :> {[i \in 1..16 |-> i], [i \in 1..16 |-> 255]})
    @@ (S_bool :> BOOLEAN)
    @@ (S_string :> {<<104, 105>>, <<48, 48, 55>>, <<97, 98, 99, 100>>, <<195, 169, 97, 98, 99>>})
    @@ (S_String :> {<<49>>, <<>>, <<97, 98>>, <<97, 98, 99, 100, 101, 102, 103, 104, 105>>})
    @@ (S_program_id :> ProgramIds)

ParseEncodeCalls ==
    UNION {UNION {{[fn |-> "parse_encode", prim |-> p, value |-> v, raw |-> t] :
                      t \in Forms(p, v)} : v \in PrimValues[p]} : p \in DOMAIN PrimValues}

\* ParsedValue::parse(raw, ty) and, on success, serialize_value_risc0.
CallParseEncode ==
    /\ call.fn = "parse_encode"
    /\ ~ret.done
    /\ ret' = Returned(ParseEncode(call.raw, TPrimitive(call.prim)))
    /\ UNCHANGED <<call, tx_vars>>

Encoded == call.fn = "parse_encode" /\ ret.done /\ ret.val.ok

\* C16: for every primitive kind, every raw string that denotes the same
\* value parses and then encodes to the same words: signed and zero-padded
\* decimals, the decimal, 0x-component and 64-hex forms of a program id, and
\* true/1/yes and false/0/no.
C16_SameValueSameWords ==
    Encoded
        => /\ ret.val.val.warn = <<>>
           /\ \A t \in Forms(call.prim, call.value) :
                 ParseEncode(t, TPrimitive(call.prim)) = ret.val

\* The 64-hex form of a program id was parsed and encoded to its 8 words.
C16_Witness ==
    /\ Encoded
    /\ call.prim = S_program_id
    /\ call.raw = hex_encode(Concat(call.value))
    /\ ret.val.val.w = call.value

\* 64 hex characters without the digit 0: also a base58 string.
RawAddrHexNoZero == [i \in 1..(2 * AddrLen) |-> IF i % 2 = 1 THEN 97 ELSE 98]

\* A base58 string of 44 characters that decodes to 32 bytes.
RawAddrBase58Long ==
    <<67, 56, 72, 52, 118, 52, 99, 50, 101, 65, 54, 110, 106, 106, 103, 122, 118, 87, 83, 114, 67, 112, 76, 100, 89, 103, 51, 104, 87, 83, 121, 103, 111, 86, 115, 105, 52, 82, 107, 85, 114, 122, 106, 86>>

\* Raw account identifiers of every shape: prefixed and bare hex in both
\* cases, base58, too short, odd, not hex, and not ASCII.
AddrInputs ==
    {RawAddrHex, <<48, 88>> \o ToUpper(Drop(RawAddrHex, 2)), Drop(RawAddrHex, 2),
     RawAddrHexNoZero, ToUpper(RawAddrHexNoZero), <<48, 120>> \o RawAddrHexNoZero,
     RawAddrBase58, RawAddrBase58Long, RawAddrBad, <<>>,
     Drop(RawAddrHex, 4), Drop(RawAddrHex, 3), <<48, 120>> \o RawAddrHex,
     [i \in 1..(2 * AddrLen) |-> IF i = 1 THEN 48 ELSE 103],
     <<48, 120, 97, 195, 169, 98>>, <<195, 169>>,
     <<97, 98, 99>>, <<48, 120, 97, 98, 99>>, [i \in 1..43 |-> 102]}

DecodeCalls == {[fn |-> "decode_bytes_32", input |-> s] : s \in AddrInputs}

\* decode_bytes_32(input)
CallDecodeBytes32 ==
    /\ call.fn = "decode_bytes_32"
    /\ ~ret.done
    /\ ret' = Returned(decode_bytes_32(call.input))
    /\ UNCHANGED <<call, tx_vars>>

\* Exactly 64 hex characters after an optional 0x or 0X.
IsHex64(s) ==
    /\ Len(StripHexPrefix(s)) = 2 * AddrLen
    /\ \A i \in 1..(2 * AddrLen) :
          StripHexPrefix(s)[i] \in (48..57) \cup (65..70) \cup (97..102)

HexVal(c) == IF c \in 48..57 THEN c - 48 ELSE IF c \in 97..102 THEN c - 87 ELSE c - 55

\* The bytes that 64 hex characters denote.
HexBytes(h) == [k \in 1..AddrLen |-> 16 * HexVal(h[2 * k - 1]) + HexVal(h[2 * k])]

IsBase58Of32(s) == from_base58(s).ok /\ Len(from_base58(s).val) = AddrLen

Decoded == call.fn = "decode_bytes_32" /\ ret.done

\* C17: decode_bytes_32 accepts every string of exactly 64 hex characters,
\* with or without 0x/0X, and returns the bytes they denote; it accepts every
\* base58 string that decodes to exactly 32 bytes; it rejects every other
\* input with an error.
C17_AcceptsHex64AndBase58 ==
    Decoded
        => /\ IsHex64(call.input)
                 => ret.val = Ok(HexBytes(StripHexPrefix(call.input)))
           /\ IsBase58Of32(call.input) => ret.val = Ok(from_base58(call.input).val)
           /\ (~IsHex64(call.input) /\ ~IsBase58Of32(call.input))
                 => ~ret.val.ok /\ ~IsPanic(ret.val)

\* Raw strings for hex_decode: hex, odd, signed, not hex, not ASCII.
HexInputs ==
    {<<97, 49, 66, 50>>, <<97, 98, 99>>, <<>>, <<122, 122>>, <<43, 102>>,
     <<97, 195, 169, 98>>, <<195, 169>>, Drop(RawAddrHex, 2)}

HexDecodeCalls == {[fn |-> "hex_decode", input |-> s] : s \in HexInputs}

\* hex_decode(hex)
CallHexDecode ==
    /\ call.fn = "hex_decode"
    /\ ~ret.done
    /\ ret' = Returned(hex_decode(call.input))
    /\ UNCHANGED <<call, tx_vars>>

\* Types of every shape the value parser distinguishes.
ParseTypes ==
    {TPrimitive(S_u8), TPrimitive(S_bool), TPrimitive(S_program_id), TPrimitive(S_string),
     TArray(TPrimitive(S_u8), 2), TArray(TPrimitive(S_u8), 4), TArray(TPrimitive(S_u32), 2),
     TVec(TArray(TPrimitive(S_u8), AddrLen)), TVec(TArray(TPrimitive(S_u8), 2)),
     TVec(TPrimitive(S_u8)), TOption(TArray(TPrimitive(S_u8), 2)), TDefined(N_Config)}

\* Raw argument strings: numbers, lists, hex with and without prefix, the
\* none of an option, blanks, over-long text, and text that is not ASCII.
ParseRaws ==
    {<<55>>, <<49, 44, 32, 50>>, <<97, 98>>, <<48, 120, 97, 49, 98, 50>>, S_none, <<>>,
     <<48, 120, 97, 195, 169, 98>>, <<195, 169>>, <<97, 49, 98, 50, 44, 195, 169, 195, 169>>,
     <<48, 120>>, RawAddrHex, RawAddrBase58 \o <<44>> \o RawAddrHex,
     <<97, 49, 66, 50>>, <<48, 120, 122, 122>>, <<48, 88, 65, 49, 98>>,
     <<97, 98, 99, 100, 101, 102, 103, 104, 105>>, <<97, 98, 99>>}

ParseValueCalls ==
    {[fn |-> "parse_value", raw |-> r, ty |-> t] : r \in ParseRaws, t \in ParseTypes}

\* ParsedValue::parse(raw, ty)
CallParseValue ==
    /\ call.fn = "parse_value"
    /\ ~ret.done
    /\ ret' = Returned(parse_value(call.raw, call.ty))
    /\ UNCHANGED <<call, tx_vars>>

\* C18: the value parser never panics: parse_value, hex_decode and
\* decode_bytes_32 return a value or an error for every raw input.
C18_ParserNeverPanics ==
    (ret.done /\ call.fn \in {"parse_value", "hex_decode", "decode_bytes_32"})
        => ~IsPanic(ret.val)

\* ------------------------------------------------------------------------
\* nssa-framework-macros: generate_validation
\* ------------------------------------------------------------------------
\* The indices of the accounts that carry a constraint, in declared order.
WithConstraint(accounts, c) ==
    SelectSeq([j \in 1..Len(accounts) |-> j], LAMBDA j : accounts[j][c])

\* The body of __validate_<fn>: #(#signer_checks)* #(#init_checks)*
generate_validation(accounts) ==
    [k \in 1..Len(WithConstraint(accounts, "signer")) |->
        [check |-> "signer", idx |-> WithConstraint(accounts, "signer")[k] - 1]]
    \o [k \in 1..Len(WithConstraint(accounts, "init")) |->
        [check |-> "init", idx |-> WithConstraint(accounts, "init")[k] - 1]]

\* One generated check against the accounts passed in.
CheckFails(c, metas) ==
    IF c.check = "signer" THEN ~metas[c.idx + 1].is_authorized
    ELSE ~metas[c.idx + 1].is_default

CheckError(c) ==
    IF c.check = "signer" THEN [kind |-> "Unauthorized", index |-> c.idx]
    ELSE [kind |-> "AccountAlreadyInitialized", account_index |-> c.idx]

\* __validate_<fn>(accounts): the error of the first check that fails.
RunValidation(checks, metas) ==
    LET failing == {k \in 1..Len(checks) : CheckFails(checks[k], metas)}
    IN IF failing = {} THEN Ok(<<>>) ELSE Err(CheckError(checks[Min(failing)]))

\* The number of accounts of a validated instruction.
MaxAccounts == 2

\* Instructions whose accounts carry any combination of signer and init, and
\* accounts in any state of authorization and initialization.
ValidateCalls ==
    {[fn |-> "validate", accounts |-> a, metas |-> m] :
        a \in [1..MaxAccounts -> [signer : BOOLEAN, init : BOOLEAN]],
        m \in [1..MaxAccounts -> [is_authorized : BOOLEAN, is_default : BOOLEAN]]}

\* __validate_<fn>(&accounts) as generated for the instruction.
CallValidate ==
    /\ call.fn = "validate"
    /\ ~ret.done
    /\ ret' = Returned(RunValidation(generate_validation(call.accounts), call.metas))
    /\ UNCHANGED <<call, tx_vars>>

\* C19: when an init account is already initialized and a signer account is
\* not authorized, validation reports AccountAlreadyInitialized: the init
\* checks run before the signer checks.
C19_InitCheckedBeforeSigner ==
    (/\ call.fn = "validate" /\ ret.done
     /\ \E j \in 1..MaxAccounts : call.accounts[j].init /\ ~call.metas[j].is_default
     /\ \E j \in 1..MaxAccounts : call.accounts[j].signer /\ ~call.metas[j].is_authorized)
        => /\ ~ret.val.ok
           /\ ret.val.err.kind = "AccountAlreadyInitialized"

\* ------------------------------------------------------------------------
\* nssa-framework-core: NssaError::error_code
\* ------------------------------------------------------------------------
BuiltinCodes ==
    ("AccountCountMismatch" :> 1000) @@ ("InvalidAccountOwner" :> 1001)
    @@ ("AccountAlreadyInitialized" :> 1002) @@ ("AccountNotInitialized" :> 1003)
    @@ ("InsufficientBalance" :> 1004) @@ ("DeserializationError" :> 1005)
    @@ ("SerializationError" :> 1006) @@ ("Overflow" :> 1007)
    @@ ("Unauthorized" :> 1008) @@ ("PdaMismatch" :> 1009)

CustomBase == 6000

\* error_code(&self) as a u32 (4 little-endian bytes). 6000 + code wraps
\* without overflow checks and panics with them.
error_code(e, overflow_checks) ==
    IF e.kind = "Custom"
    THEN LET OnSum(r) == IF r.c # 0 /\ overflow_checks THEN Panic ELSE Ok(r.b)
         IN OnSum(MulAdd(e.code, 1, CustomBase))
    ELSE Ok(Word(BuiltinCodes[e.kind]))

\* Custom codes: small ones, a built-in's number, and the largest ones.
CustomCodes ==
    {Word(0), Word(1), Word(1000), Word(6000), <<143, 232, 255, 255>>,
     <<144, 232, 255, 255>>, <<120, 236, 255, 255>>, <<255, 255, 255, 255>>}

ErrorCodeCalls ==
    {[fn |-> "error_code", err |-> [kind |-> k]] : k \in DOMAIN BuiltinCodes}
    \cup {[fn |-> "error_code", err |-> [kind |-> "Custom", code |-> c]] : c \in CustomCodes}

\* err.error_code(), built with or without overflow checks.
CallErrorCode ==
    /\ call.fn = "error_code"
    /\ ~ret.done
    /\ \E overflow_checks \in BOOLEAN :
          ret' = Returned(error_code(call.err, overflow_checks))
    /\ UNCHANGED <<call, tx_vars>>

\* C20: error_code is 6000 + code for Custom { code } for every 32-bit code,
\* a custom code never equals a built-in code, and the built-in codes
\* 1000..1009 are pairwise distinct.
C20_CustomCodesOffsetAndDisjoint ==
    /\ \A k1, k2 \in DOMAIN BuiltinCodes :
          /\ BuiltinCodes[k1] \in 1000..1009
          /\ k1 # k2 => BuiltinCodes[k1] # BuiltinCodes[k2]
    /\ (call.fn = "error_code" /\ ret.done)
          => IF call.err.kind = "Custom"
             THEN /\ ret.val.ok
                  /\ ret.val.val \o <<0>> = MulAdd(call.err.code \o <<0>>, 1, 6000).b
                  /\ \A k \in DOMAIN BuiltinCodes : ret.val.val # Word(BuiltinCodes[k])
             ELSE ret.val = Ok(Word(BuiltinCodes[call.err.kind]))

IsHexText(s) == \A i \in 1..Len(s) : s[i] \in (48..57) \cup (65..70) \cup (97..102)

\* The bytes that an even number of hex characters denote.
HexBytesOf(h) ==
    [k \in 1..(Len(h) \div 2) |-> 16 * HexVal(h[2 * k - 1]) + HexVal(h[2 * k])]

HasHexPrefix(s) == Len(s) >= 2 /\ s[1] = 48 /\ s[2] \in {120, 88}

\* parse_value was called for a [u8; N].
ParsedByteArray ==
    /\ call.fn = "parse_value" /\ ret.done
    /\ call.ty.k = "Array" /\ call.ty.elem = TPrimitive(S_u8)

\* Form (a): exactly 2N hex characters.
IsBareHexForm == Len(call.raw) = 2 * call.ty.n /\ IsHexText(call.raw)

\* Form (b): a 0x/0X-prefixed hex string that decodes to exactly N bytes.
IsPrefixedHexForm ==
    /\ ~IsBareHexForm
    /\ HasHexPrefix(call.raw)
    /\ Len(call.raw) = 2 + 2 * call.ty.n
    /\ IsHexText(SubSeq(call.raw, 3, Len(call.raw)))

\* C21: for [u8; N] the three encodings are tried in order: exactly 2N hex
\* characters decode as hex; otherwise a 0x/0X-prefixed hex string of N bytes
\* is accepted; otherwise an input of at most N bytes that was not accepted
\* as hex is accepted as its bytes right-padded with zeros; an input longer
\* than N bytes that is not hex is rejected citing its byte length and N.
C21_ArrayFormsTriedInOrder ==
    ParsedByteArray
        => /\ IsBareHexForm => ret.val = Ok(VByteArray(HexBytesOf(call.raw)))
           /\ IsPrefixedHexForm
                 => ret.val = Ok(VByteArray(HexBytesOf(SubSeq(call.raw, 3, Len(call.raw)))))
           /\ (~IsBareHexForm /\ ~IsPrefixedHexForm /\ Len(call.raw) <= call.ty.n)
                 => ret.val = Ok(VByteArray(call.raw \o Zeros(call.ty.n - Len(call.raw))))
           /\ (~IsBareHexForm /\ ~IsPrefixedHexForm /\ Len(call.raw) > call.ty.n)
                 => /\ ~ret.val.ok /\ ~IsPanic(ret.val)
                    /\ ret.val.err.kind = "StringTooLong"
                    /\ ret.val.err.len = Len(call.raw) /\ ret.val.err.size = call.ty.n

\* needle occurs in text.
IsSubstring(needle, text) ==
    \E i \in 0..(Len(text) - Len(needle)) : SubSeq(text, i + 1, i + Len(needle)) = needle

\* The error message carries the name.
ErrorNames(err, name) == "name" \in DOMAIN err /\ IsSubstring(name, err.name)

\* The seed references an account or an argument that is not there.
IsMissingRef(seed) ==
    \/ seed.kind = "account" /\ seed.s \notin DOMAIN call.account_map
    \/ seed.kind = "arg" /\ seed.s \notin DOMAIN call.parsed_args

\* The seed cannot be resolved: a missing reference or a constant of more
\* than 32 bytes.
IsBadSeed(seed) == IsMissingRef(seed) \/ (seed.kind = "const" /\ Len(seed.s) > AddrLen)

PdaCalled == call.fn = "compute_pda_from_seeds" /\ ret.done

\* C22 as stated: a missing account or argument reference makes
\* compute_pda_from_seeds return an error that contains its name, whatever
\* the other seeds are, and an empty seed list is an error.
C22_MissingReferenceNamed ==
    PdaCalled
        => /\ call.seeds = <<>> => ~ret.val.ok
           /\ \A j \in 1..Len(call.seeds) :
                 IsMissingRef(call.seeds[j])
                     => ~ret.val.ok /\ ErrorNames(ret.val.err, call.seeds[j].s)

\* C22, amended: an empty seed list is an error; when a seed references a
\* missing account or argument no address is produced, and the error is the
\* one of the first seed in list order that cannot be resolved: it names the
\* missing reference when no earlier seed fails.
C22_FirstFailingSeedNamed ==
    PdaCalled
        => /\ call.seeds = <<>> => ret.val = Err([kind |-> "NoSeeds"])
           /\ \A j \in 1..Len(call.seeds) :
                 IsMissingRef(call.seeds[j])
                     => /\ ~ret.val.ok
                        /\ (\A k \in 1..(j - 1) : ~IsBadSeed(call.seeds[k]))
                              => /\ ret.val.err.kind
                                       = (IF call.seeds[j].kind = "account"
                                          THEN "AccountNotResolved" ELSE "ArgNotProvided")
                                 /\ ErrorNames(ret.val.err, call.seeds[j].s)
                                 /\ ret.val.err.name = call.seeds[j].s
           /\ (\A j \in 1..Len(call.seeds) : ~IsBadSeed(call.seeds[j])) /\ call.seeds # <<>>
                 => ret.val.ok

\* A derivation whose second and third seeds reference a missing account
\* and a missing argument failed naming the account.
C22_Witness ==
    /\ PdaCalled
    /\ call.seeds = <<SeedConst(N_vault), SeedAccount(N_owner), SeedArg(N_memo)>>
    /\ ret.val = Err([kind |-> "AccountNotResolved", name |-> N_owner])

\* Values of every ParsedValue variant for the argument a seed names.
SeedArgValues ==
    <<VU64(<<8, 7, 6, 5, 4, 3, 2, 1>>), VU64(LeBytes(7, 8)), VU128([i \in 1..16 |-> i]),
     VStr(<<104, 105>>), VStr(<<>>), VStr(RawAddrBase58), VStr(RawLong),
     VByteArray([i \in 1..AddrLen |-> 160 + i]), VByteArray(<<1, 2>>),
     VByteArray(Zeros(AddrLen + 1)), VBool(TRUE), VU8(<<7>>), VU32(Word(7)),
     VU32Array(<<Word(1), Word(2)>>), VByteArrayVec(<<Zeros(AddrLen)>>), VNone,
     VSome(VU64(LeBytes(7, 8))), VRaw(<<120>>)>>

\* parsed_args holding the k-th value under "key"; empty for k = 0.
SeedArgsOf(k) == IF k = 0 THEN <<>> ELSE (N_key :> SeedArgValues[k])

\* Constant seeds of 0, 5, 32 and 33 bytes, and an argument seed for each value.
ResolveSeedCalls ==
    {[fn |-> "resolve_seed", seed |-> SeedConst(s), arg |-> 0] :
        s \in {<<>>, N_vault, RawAddrBase58, RawLong}}
    \cup {[fn |-> "resolve_seed", seed |-> SeedArg(N_key), arg |-> k] :
        k \in DOMAIN SeedArgValues}

\* resolve_seed(seed, &program_id, &account_map, &parsed_args)
CallResolveSeed ==
    /\ call.fn = "resolve_seed"
    /\ ~ret.done
    /\ ret' = Returned(resolve_seed(call.seed, PdaProgramId, PdaAccountMap,
                                    SeedArgsOf(call.arg)))
    /\ UNCHANGED <<call, tx_vars>>

\* s at the left of a 32-byte zero buffer.
LeftJustified(s) == [i \in 1..AddrLen |-> IF i <= Len(s) THEN s[i] ELSE 0]

\* The number with little-endian bytes le at the right of a 32-byte zero
\* buffer, most significant byte first.
RightAlignedBigEndian(le) ==
    [i \in 1..AddrLen |-> IF i <= AddrLen - Len(le) THEN 0 ELSE le[AddrLen + 1 - i]]

\* The layout of the value an argument seed names.
ExpectedArgSeed(v) ==
    IF v.t \in {"U64", "U128"} THEN Ok(RightAlignedBigEndian(v.v))
    ELSE IF v.t = "Str"
    THEN (IF Len(v.v) <= AddrLen THEN Ok(LeftJustified(v.v))
          ELSE Err([kind |-> "StringArgTooLong", name |-> call.seed.s]))
    ELSE IF v.t = "ByteArray"
    THEN (IF Len(v.v) = AddrLen THEN Ok(v.v)
          ELSE Err([kind |-> "ArgWrongLength", name |-> call.seed.s, len |-> Len(v.v)]))
    ELSE Err([kind |-> "UnsupportedSeedType", name |-> call.seed.s])

SeedResolved == call.fn = "resolve_seed" /\ ret.done

\* C23: a Const or string seed of at most 32 bytes resolves to its bytes
\* left-justified and zero-padded (longer is an error); a u64 resolves to 24
\* zero bytes and its 8 big-endian bytes; a u128 to 16 zero bytes and its 16
\* big-endian bytes; a byte array resolves only with exactly 32 bytes; every
\* other value kind is an unsupported-seed-type error.
C23_SeedByteLayout ==
    SeedResolved
        => /\ call.seed.kind = "const"
                 => ret.val = (IF Len(call.seed.s) <= AddrLen
                               THEN Ok(LeftJustified(call.seed.s))
                               ELSE Err([kind |-> "ConstSeedTooLong", name |-> call.seed.s]))
           /\ call.seed.kind = "arg"
                 => ret.val = ExpectedArgSeed(SeedArgValues[call.arg])
           /\ ret.val.ok => Len(ret.val.val) = AddrLen

\* The u64 0x0102030405060708 resolved to 24 zero bytes and 01 02 .. 08.
C23_Witness ==
    /\ SeedResolved
    /\ call.seed.kind = "arg"
    /\ SeedArgValues[call.arg] = VU64(<<8, 7, 6, 5, 4, 3, 2, 1>>)
    /\ ret.val = Ok(Zeros(24) \o <<1, 2, 3, 4, 5, 6, 7, 8>>)

\* ParsedValue::parse(raw, ty) and, for a parsed value, its encoding: the
\* parse result and the words.
ParseAndEncode(raw, ty) ==
    LET OnParsed(r) ==
            [parsed |-> r,
             words |-> IF r.ok THEN serialize_value_risc0(ty, r.val) ELSE Emit(<<>>)]
    IN OnParsed(parse_value(raw, ty))

\* Option, array and list types.
CompoundTypes ==
    {TOption(TPrimitive(S_u8)), TOption(TPrimitive(S_bool)), TOption(TPrimitive(S_string)),
     TOption(TArray(TPrimitive(S_u8), 2)), TOption(TOption(TPrimitive(S_u8))),
     TOption(TDefined(N_Config)),
     TArray(TPrimitive(S_u8), 2), TArray(TPrimitive(S_u8), 4), TArray(TPrimitive(S_u32), 2),
     TVec(TArray(TPrimitive(S_u8), 2)), TVec(TArray(TPrimitive(S_u8), AddrLen)),
     TVec(TPrimitive(S_u8))}

ParseAndEncodeCalls ==
    {[fn |-> "parse_and_encode", raw |-> r, ty |-> t] :
        r \in ParseRaws \cup {S_null, S_true}, t \in CompoundTypes}

\* ParsedValue::parse(raw, ty), then serialize_value_risc0(&mut out, ty, &val)
CallParseAndEncode ==
    /\ call.fn = "parse_and_encode"
    /\ ~ret.done
    /\ ret' = Returned(ParseAndEncode(call.raw, call.ty))
    /\ UNCHANGED <<call, tx_vars>>

ParsedAs(k) == call.fn = "parse_and_encode" /\ ret.done /\ call.ty.k = k

\* Present(r) for a parsed inner value, the inner failure otherwise.
Present(r) == IF r.ok THEN Ok(VSome(r.val)) ELSE r

\* C24: under Optional(inner) the raw tokens none, null and the empty string
\* parse to Absent and every other raw string to Present(parse(raw, inner));
\* Absent encodes to exactly the word 0, Present to the word 1 followed by
\* the encoding of the inner value.
C24_OptionalParseAndEncode ==
    ParsedAs("Option")
        => /\ IF call.raw \in {S_none, S_null, <<>>}
              THEN ret.val.parsed.ok /\ ret.val.parsed.val.t = "None"
              ELSE ret.val.parsed = Present(parse_value(call.raw, call.ty.inner))
           /\ ret.val.parsed.ok
                 => IF ret.val.parsed.val.t = "None"
                    THEN ret.val.words.w = <<Word(0)>>
                    ELSE /\ ret.val.parsed.val.t = "Some"
                         /\ ret.val.words.w
                               = <<Word(1)>>
                                 \o serialize_value_risc0(call.ty.inner,
                                                          ret.val.parsed.val.v).w

\* "7" under Option<u8> was parsed to Present(7) and encoded to the words 1, 7.
C24_Witness ==
    /\ ParsedAs("Option")
    /\ call.ty.inner = TPrimitive(S_u8) /\ call.raw = <<55>>
    /\ ret.val.parsed = Ok(VSome(VU8(<<7>>)))
    /\ ret.val.words.w = <<Word(1), Word(7)>>

\* The words are 32-bit: four bytes each.
AreWords(ws) ==
    \A i \in 1..Len(ws) : Len(ws[i]) = 4 /\ \A b \in 1..4 : ws[i][b] \in 0..255

\* C25: a u64 encodes to exactly 2 words and a u128 to exactly 4, the 32-bit
\* limbs of the value from least to most significant, so that the value is
\* the sum of word i times 2^(32 i).
C25_LimbsLeastSignificantFirst ==
    (Encoded /\ call.prim \in {S_u64, S_u128})
        => /\ Len(ret.val.val.w) = (IF call.prim = S_u64 THEN 2 ELSE 4)
           /\ AreWords(ret.val.val.w)
           /\ \A i \in 1..Len(ret.val.val.w) :
                 ret.val.val.w[i] = [b \in 1..4 |-> call.value[4 * (i - 1) + b]]
           /\ ToDecimal(Concat(ret.val.val.w)) = ToDecimal(call.value)
           /\ ret.val.val.warn = <<>>

\* The u64 0x0102030405060708 given as "72623859790382856" was encoded to
\* the words 0x05060708 and 0x01020304.
C25_Witness ==
    /\ Encoded /\ call.prim = S_u64
    /\ call.raw = <<55, 50, 54, 50, 51, 56, 53, 57, 55, 57, 48, 51, 56, 50, 56, 53, 54>>
    /\ ret.val.val.w = <<<<8, 7, 6, 5>>, <<4, 3, 2, 1>>>>

\* ceil(n / 4)
CeilQuarter(n) == (n \div 4) + (IF n % 4 = 0 THEN 0 ELSE 1)

\* C26: a string of byte length len encodes to 1 + ceil(len / 4) words: the
\* length, then the bytes four per word in little-endian order, the last
\* word zero-padded in its high-order bytes; the empty string is the single
\* word 0.
C26_StringLengthThenPackedBytes ==
    (Encoded /\ call.prim \in {S_string, S_String})
        => /\ Len(ret.val.val.w) = 1 + CeilQuarter(Len(call.value))
           /\ AreWords(ret.val.val.w)
           /\ ToDecimal(ret.val.val.w[1]) = ToDecimal(LeBytes(Len(call.value), 1))
           /\ \A k \in 1..(4 * CeilQuarter(Len(call.value))) :
                 ret.val.val.w[1 + ((k + 3) \div 4)][((k - 1) % 4) + 1]
                     = (IF k <= Len(call.value) THEN call.value[k] ELSE 0)
           /\ (call.value = <<>> => ret.val.val.w = <<<<0, 0, 0, 0>>>>)

\* "ab" was encoded to the words 2 and 0x00006261.
C26_Witness ==
    /\ Encoded /\ call.prim = S_String
    /\ call.raw = <<97, 98>>
    /\ ret.val.val.w = <<<<2, 0, 0, 0>>, <<97, 98, 0, 0>>>>

\* A raw string was accepted for the type [u8; N].
ByteArrayAccepted ==
    /\ ParsedAs("Array") /\ IsPrim(call.ty.elem, S_u8)
    /\ ret.val.parsed.ok

\* C27: for every raw string accepted for [u8; N] the parsed value has
\* exactly N bytes and its encoding is exactly N words, word i holding byte i
\* alone: bytes are never packed.
C27_ByteArrayOneWordPerByte ==
    ByteArrayAccepted
        => /\ ret.val.parsed.val.t = "ByteArray"
           /\ Len(ret.val.parsed.val.v) = call.ty.n
           /\ \A i \in 1..call.ty.n : ret.val.parsed.val.v[i] \in 0..255
           /\ Len(ret.val.words.w) = call.ty.n
           /\ \A i \in 1..call.ty.n :
                 ret.val.words.w[i] = <<ret.val.parsed.val.v[i], 0, 0, 0>>
           /\ ret.val.words.warn = <<>>

\* "0xa1b2" was accepted for [u8; 2] and encoded to the words 0xa1, 0xb2.
C27_Witness ==
    /\ ByteArrayAccepted
    /\ call.raw = <<48, 120, 97, 49, 98, 50>> /\ call.ty.n = 2
    /\ ret.val.words.w = <<<<161, 0, 0, 0>>, <<178, 0, 0, 0>>>>

\* Number of comma-separated elements of a raw string.
ElementCount(raw) == 1 + Cardinality({k \in 1..Len(raw) : raw[k] = 44})

\* A raw string was parsed as a Vec<[u8; N]>.
ByteArrayVecParsed ==
    /\ ParsedAs("Vec") /\ call.ty.elem.k = "Array" /\ IsPrim(call.ty.elem.elem, S_u8)

\* The failure names an element of the raw string by its 0-based index.
NamesElementIndex(r, raw) ==
    /\ ~r.ok
    /\ r.err.kind \in {"Element", "ElementLength"}
    /\ r.err.index \in 0..(ElementCount(raw) - 1)

\* The accepted list has one element of exactly n bytes for each
\* comma-separated element, and the words are the count followed by one word
\* for each byte.
ListOfByteArrays(r, words, raw, n) ==
    /\ r.val.t = "ByteArrayVec"
    /\ Len(r.val.v) = ElementCount(raw)
    /\ \A j \in 1..Len(r.val.v) : Len(r.val.v[j]) = n
    /\ Len(words.w) = 1 + Len(r.val.v) * n
    /\ ToDecimal(words.w[1]) = ToDecimal(LeBytes(Len(r.val.v), 1))
    /\ \A j \in 1..Len(r.val.v) : \A b \in 1..n :
          words.w[1 + (j - 1) * n + b] = <<r.val.v[j][b], 0, 0, 0>>
    /\ words.warn = <<>>

\* C28: for Vec<[u8; N]> the empty input parses to the empty list, whose
\* encoding is the single word 0; otherwise every comma-separated element
\* parses to exactly N bytes or the whole parse fails naming the element
\* index, and the encoding is the element count followed by the N bytes of
\* each element as N words, 1 + count * N words in all.
C28_ListOfByteArrays ==
    ByteArrayVecParsed
        => IF call.raw = <<>>
           THEN /\ ret.val.parsed.ok
                /\ ret.val.parsed.val.t = "ByteArrayVec" /\ ret.val.parsed.val.v = <<>>
                /\ ret.val.words.w = <<<<0, 0, 0, 0>>>>
           ELSE IF ret.val.parsed.ok
           THEN ListOfByteArrays(ret.val.parsed, ret.val.words, call.raw, call.ty.elem.n)
           ELSE NamesElementIndex(ret.val.parsed, call.raw)

\* Hex characters, an odd number of them.
IsOddHex(s) == IsHexText(s) /\ Len(s) % 2 = 1

\* The call was rejected with "Hex string has odd length: n".
CitesOddLength(r, n) ==
    /\ ~IsPanic(r) /\ ~r.ok
    /\ r.err.kind = "OddLength" /\ r.err.len = n

\* The call was rejected with "Element [0]: Hex string has odd length: n".
ElementCitesOddLength(r, n) ==
    /\ ~IsPanic(r) /\ ~r.ok
    /\ r.err.kind = "Element" /\ r.err.index = 0
    /\ r.err.cause.kind = "OddLength" /\ r.err.cause.len = n

\* C29: a hex string of odd length is rejected with an error citing its
\* length wherever hex is decoded: by hex_decode, as the 0x form of a
\* [u8; N], as an element of a Vec<[u8; N]>, and as a 32-byte address.
C29_OddHexRejectedCitingLength ==
    /\ (call.fn = "hex_decode" /\ ret.done /\ IsOddHex(call.input))
          => CitesOddLength(ret.val, Len(call.input))
    /\ (ParsedByteArray /\ HasHexPrefix(call.raw) /\ IsOddHex(Drop(call.raw, 2)))
          => CitesOddLength(ret.val, Len(call.raw) - 2)
    /\ (/\ call.fn = "parse_value" /\ ret.done
        /\ call.ty.k = "Vec" /\ call.ty.elem.k = "Array" /\ IsPrim(call.ty.elem.elem, S_u8)
        /\ IsOddHex(StripHexPrefix(call.raw)))
          => ElementCitesOddLength(ret.val, Len(StripHexPrefix(call.raw)))
    /\ (Decoded /\ IsOddHex(StripHexPrefix(call.input)))
          => CitesOddLength(ret.val, Len(StripHexPrefix(call.input)))

\* The text cannot be base58: it has the 0x or 0X prefix or the character 0,
\* which is not in the base58 alphabet.
NotBase58Text(s) == HasHexPrefix(s) \/ \E i \in 1..Len(s) : s[i] = 48

\* The address text was read as base58: accepted, or rejected citing the
\* number of bytes it decoded to.
ReadAsBase58(r) == ~IsPanic(r) /\ (r.ok \/ r.err.kind = "Base58Length")

\* C29 (amended): a hex string of odd length is rejected citing its length
\* by hex_decode, as the 0x form of a [u8; N], and as an element of a
\* Vec<[u8; N]> with N other than 32; as a 32-byte address, and as an element
\* of a Vec<[u8; 32]>, it is rejected citing its length when it cannot be
\* base58 (it has the prefix or contains the character 0), and is read as
\* base58 otherwise.
C29_OddHexRejectedUnlessBase58 ==
    /\ (call.fn = "hex_decode" /\ ret.done /\ IsOddHex(call.input))
          => CitesOddLength(ret.val, Len(call.input))
    /\ (ParsedByteArray /\ HasHexPrefix(call.raw) /\ IsOddHex(Drop(call.raw, 2)))
          => CitesOddLength(ret.val, Len(call.raw) - 2)
    /\ (/\ call.fn = "parse_value" /\ ret.done
        /\ call.ty.k = "Vec" /\ call.ty.elem.k = "Array" /\ IsPrim(call.ty.elem.elem, S_u8)
        /\ IsOddHex(StripHexPrefix(call.raw)))
          => IF call.ty.elem.n # AddrLen \/ NotBase58Text(call.raw)
             THEN ElementCitesOddLength(ret.val, Len(StripHexPrefix(call.raw)))
             ELSE /\ ~IsPanic(ret.val)
                  /\ ret.val.ok \/ (/\ ret.val.err.kind = "Element"
                                    /\ ret.val.err.index = 0
                                    /\ ret.val.err.cause.kind = "Base58Length")
    /\ (Decoded /\ IsOddHex(StripHexPrefix(call.input)))
          => IF NotBase58Text(call.input)
             THEN CitesOddLength(ret.val, Len(StripHexPrefix(call.input)))
             ELSE ReadAsBase58(ret.val)

\* The last 63 hex characters of a 64-character address were rejected as an
\* address, citing the length 63.
C29_Witness ==
    /\ Decoded /\ call.input = Drop(RawAddrHex, 3)
    /\ IsOddHex(call.input)
    /\ ret.val = Err([kind |-> "OddLength", len |-> 63])

\* The keys of the parsed fields, arguments first, with the name of each
\* field.
ParsedFieldKeys ==
    [j \in 1..Len(parsed_args) |->
        [field |-> <<"arg", parsed_args[j].name>>,
         key |-> snake_to_kebab(parsed_args[j].name)]]
    \o [j \in 1..Len(parsed_accounts) |->
           [field |-> <<"account", parsed_accounts[j].name>>,
            key |-> snake_to_kebab(parsed_accounts[j].name) \o S_account_suffix]]

\* C30: within one instruction distinct declared fields are read from
\* distinct raw-argument keys: no two of the parsed arguments and non-PDA
\* accounts got their value from the same key of the raw-argument map.
C30_DistinctFieldsDistinctKeys ==
    PastParse
        => \A i, j \in 1..Len(ParsedFieldKeys) :
              i # j => ParsedFieldKeys[i].key # ParsedFieldKeys[j].key

LibCalls ==
    PdaCalls
    \cup ResolveSeedCalls
    \cup ParseEncodeCalls
    \cup ParseAndEncodeCalls
    \cup DecodeCalls
    \cup HexDecodeCalls
    \cup ParseValueCalls
    \cup ValidateCalls
    \cup ErrorCodeCalls

LibInit ==
    /\ NotInvoked
    /\ call \in LibCalls
    /\ ret = NotReturned

LibNext ==
    \/ CallComputePda
    \/ CallResolveSeed
    \/ CallParseEncode
    \/ CallParseAndEncode
    \/ CallDecodeBytes32
    \/ CallHexDecode
    \/ CallParseValue
    \/ CallValidate
    \/ CallErrorCode

LibSpec == LibInit /\ [][LibNext]_vars
====
